---- MODULE Spec2Model ----
(***************************************************************************)
(* A model of the stream player of sharp-code-shepherd:                    *)
(*   - the playback session of src/components/VideoPlayer.tsx (one React   *)
(*     component instance, its refs, timers, listeners and the async       *)
(*     continuations of initializePlayer),                                 *)
(*   - the failover orchestrator of src/pages/EventPlayer.tsx,             *)
(*   - the manifest proxy of api/m3u8-proxy.ts,                            *)
(*   - the pure helpers detectStreamType and getTimeStats of VideoPlayer.  *)
(* Text is modelled as sequences of one-character strings.                 *)
(***************************************************************************)
EXTENDS Integers, Sequences, FiniteSets, TLC

(***************************************************************************)
(* Bounds of the model                                                     *)
(***************************************************************************)
\* longest candidate list of an event
MaxLinks == 3
\* engine instances (Hls / shaka.Player objects) alive at the same time
MaxEngines == 2
\* state updates queued by setCurrentLinkIndex before EventPlayer re-renders
MaxQueue == 2
\* async continuations (awaited import / awaited load) in flight at once
MaxPending == 2
\* consecutive network-class errors that are counted
MaxNetErrs == 4
\* loads the page starts in one visit: the mount, candidate changes, Retry clicks
MaxSessions == 3
\* once-listeners attached to the video element at the same time
MaxListeners == 4
\* lines of a playlist body handled by the proxy
MaxLines == 2
\* positions on the progress bar: clientX in halves of the width of the bar
MaxHalf == 2
\* lines of a playlist handed to the catalog extraction
MaxEntries == 4

(***************************************************************************)
(* Program constants                                                       *)
(***************************************************************************)
\* VideoPlayer.tsx: let retryCount = 0; const maxRetries = 3;
maxRetries == 3

(***************************************************************************)
(* Text helpers (String.prototype.startsWith / includes / indexOf / trim)  *)
(***************************************************************************)
StartsWith(s, p) ==
    /\ Len(p) <= Len(s)
    /\ SubSeq(s, 1, Len(p)) = p

\* first 1-based position of sub in s, 0 when absent
IndexOf(s, sub) ==
    LET hits == {i \in 1..(Len(s) - Len(sub) + 1) : SubSeq(s, i, i + Len(sub) - 1) = sub}
    IN  IF hits = {} THEN 0 ELSE CHOOSE i \in hits : \A j \in hits : i <= j

Includes(s, sub) == IndexOf(s, sub) # 0

\* the ASCII characters String.prototype.trim removes
WhiteSpace == {" ", "\t", "\r", "\n"}

RECURSIVE TrimStart(_)
TrimStart(s) ==
    IF s # <<>> /\ Head(s) \in WhiteSpace THEN TrimStart(Tail(s)) ELSE s

RECURSIVE TrimEnd(_)
TrimEnd(s) ==
    IF s # <<>> /\ s[Len(s)] \in WhiteSpace THEN TrimEnd(SubSeq(s, 1, Len(s) - 1)) ELSE s

Trim(s) == TrimEnd(TrimStart(s))

toLowerCase(s) ==
    LET UpperCase == <<"A", "B", "C", "D", "E", "F", "G", "H", "I", "J", "K", "L", "M",
                       "N", "O", "P", "Q", "R", "S", "T", "U", "V", "W", "X", "Y", "Z">>
        LowerCase == <<"a", "b", "c", "d", "e", "f", "g", "h", "i", "j", "k", "l", "m",
                       "n", "o", "p", "q", "r", "s", "t", "u", "v", "w", "x", "y", "z">>
        LowerChar(c) ==
            IF \E i \in 1..26 : UpperCase[i] = c
            THEN LowerCase[CHOOSE i \in 1..26 : UpperCase[i] = c]
            ELSE c
    IN  [i \in 1..Len(s) |-> LowerChar(s[i])]

(***************************************************************************)
(* Stream classifier: VideoPlayer.tsx detectStreamType                     *)
(***************************************************************************)
DrmDelimiter == <<"?", "|">>

\* url.split('?|')[0]
SplitBase(url) ==
    LET i == IndexOf(url, DrmDelimiter)
    IN  IF i = 0 THEN url ELSE SubSeq(url, 1, i - 1)

\* the DRM block yields a drmInfo object only with drmScheme and drmLicense,
\* or with a token; parameters are written k=v with one-letter keys here:
\* s = drmScheme, l = drmLicense, t = token / authToken
HasParam(block, k) ==
    \E i \in 1..Len(block) :
        /\ block[i] = k
        /\ (i = 1 \/ block[i - 1] = "&")
        /\ i + 2 <= Len(block)
        /\ block[i + 1] = "="
        /\ block[i + 2] \notin {"&", "="}

HasDrmInfo(url) ==
    LET \* url.split('?|')[1]: the text between the first and the second delimiter
        i     == IndexOf(url, DrmDelimiter)
        rest  == SubSeq(url, i + 2, Len(url))
        j     == IndexOf(rest, DrmDelimiter)
        block == IF i = 0 THEN <<>>
                 ELSE IF j = 0 THEN rest ELSE SubSeq(rest, 1, j - 1)
    IN  /\ Includes(url, DrmDelimiter)
        /\ block # <<>>
        /\ \/ HasParam(block, "s") /\ HasParam(block, "l")
           \/ HasParam(block, "t")

detectStreamType(url) ==
    LET cleanUrl == SplitBase(url)
        urlLower == toLowerCase(cleanUrl)
    IN  IF \/ Includes(urlLower, <<".", "m", "3", "u", "8">>)
           \/ Includes(urlLower, <<"/", "h", "l", "s", "/">>)
           \/ Includes(urlLower, <<"h", "l", "s">>)
           \/ Includes(urlLower, <<"/", "a", "p", "i", "/", "m", "3", "u", "8", "-", "p", "r", "o", "x", "y">>)
        THEN "hls"
        ELSE IF \/ Includes(urlLower, <<".", "m", "p", "d">>)
                \/ Includes(urlLower, <<"/", "d", "a", "s", "h", "/">>)
                \/ Includes(urlLower, <<"d", "a", "s", "h">>)
        THEN "dash"
        ELSE IF \/ Includes(urlLower, <<".", "m", "p", "4">>)
                \/ Includes(urlLower, <<".", "w", "e", "b", "m">>)
                \/ Includes(urlLower, <<".", "m", "o", "v">>)
        THEN "native"
        ELSE IF Includes(urlLower, <<"m", "a", "n", "i", "f", "e", "s", "t">>) \/ HasDrmInfo(url)
        THEN "dash"
        ELSE "hls"


(***************************************************************************)
(* State                                                                   *)
(***************************************************************************)
VARIABLES
    links,              \* event.links: the candidate URLs, in order
    browser,            \* what the browser supports: "mse", "nativeHls", "none"
    view,               \* EventPlayer: "init", "shown", "crashed", "closed"
    currentLinkIndex,   \* EventPlayer state as of the last render (0-based)
    updateQueue,        \* setCurrentLinkIndex updates not yet rendered
    vp,                 \* the mounted VideoPlayer instance
    netErrs,            \* consecutive network-class errors of the Shaka sessions
    proxy,              \* the request the manifest proxy handles and its response
    call,               \* one call of a pure helper: its input and its result
    ui                  \* the progress bar: the video element, the time line and the seek refs

vars == <<links, browser, view, currentLinkIndex, updateQueue, vp, netErrs, proxy, call, ui>>

\* example URLs, one per protocol family
HlsUrl  == <<"a", ".", "m", "3", "u", "8">>
DashUrl == <<"b", ".", "m", "p", "d">>
Mp4Url  == <<"c", ".", "m", "p", "4">>
Urls    == {HlsUrl, DashUrl, Mp4Url}

\* the candidate lists: one list of distinct URLs cut to 1..MaxLinks entries,
\* every single candidate, every pair that repeats one URL, and a pair whose
\* first candidate has no URL
LinkLists ==
    LET Rotation(k, n) == [i \in 1..n |->
            CASE (i + k) % 3 = 0 -> DashUrl
              [] (i + k) % 3 = 1 -> HlsUrl
              [] OTHER           -> Mp4Url]
    IN
    {Rotation(2, n) : n \in 1..MaxLinks}
        \cup {<<u>> : u \in Urls}
        \cup {<<u, u>> : u \in Urls}
        \cup {<<<<>>, HlsUrl>>}

(***************************************************************************)
(* Failover orchestrator: EventPlayer.tsx                                  *)
(***************************************************************************)
\* const [autoRetry, setAutoRetry] = useState(true); setAutoRetry is never called
autoRetry == TRUE

\* a queued update: prev => prev + 1, or a plain value
IncUpdate    == [op |-> "inc", v |-> 0]
SetUpdate(i) == [op |-> "set", v |-> i]

ApplyUpdate(u, cur) == IF u.op = "inc" THEN cur + 1 ELSE u.v

RECURSIVE ApplyQueue(_, _)
ApplyQueue(q, cur) ==
    IF q = <<>> THEN cur ELSE ApplyQueue(Tail(q), ApplyUpdate(Head(q), cur))

\* React's useState dispatch: with no update pending the new state is computed
\* eagerly and an update that leaves the state as it is schedules no render
Dispatch(q, u, cur) ==
    IF q = <<>> /\ ApplyUpdate(u, cur) = cur
    THEN q
    ELSE Append(q, u)

\* handleVideoError as created by the render whose currentLinkIndex was c
\* (cur is the state React holds when the call is made)
handleVideoError(q, c, cur) ==
    IF ~autoRetry THEN q
    ELSE IF c < Len(links) - 1 THEN Dispatch(q, IncUpdate, cur)
    ELSE Dispatch(q, SetUpdate(0), cur)

\* the onError calls of one handler run, in order; each is the closure index
RECURSIVE Notify(_, _, _)
Notify(q, calls, cur) ==
    IF calls = <<>> THEN q
    ELSE Notify(handleVideoError(q, Head(calls), cur), Tail(calls), cur)

(***************************************************************************)
(* Playback session: VideoPlayer.tsx                                       *)
(***************************************************************************)
\* stalled: "no", "backoff" (a startLoad timer is pending), "halted";
\* recovered: the manifest has been parsed and no fatal error came since
NoEngine == [kind |-> "none", parsed |-> FALSE, stalled |-> "no",
             retryCount |-> 0, recovered |-> FALSE, idx |-> 0, gen |-> "cur"]

NoPending == [kind |-> "none", eng |-> 0, idx |-> 0, gen |-> "cur"]

NoTimeout == [armed |-> FALSE, idx |-> 0, gen |-> "cur"]

\* a VideoPlayer instance as React creates it, before its effect has run
FreshPlayer ==
    [mounted        |-> FALSE,
     hlsRef         |-> 0,
     shakaPlayerRef |-> 0,
     playerTypeRef  |-> "null",
     loadingTimeout |-> NoTimeout,
     \* useState initial value (the fields the session logic writes)
     \* (a track list is named by the adapter that reported it; currentSubtitle
     \* -1 stands for '')
     playerState    |-> [isLoading |-> TRUE, error |-> "none", qualities |-> "none",
                         audio |-> "none", subtitles |-> "none", currentQuality |-> -1,
                         currentAudioTrack |-> -1, currentSubtitle |-> -1],
     videoSrc       |-> "none",
     listeners      |-> <<>>,
     engines        |-> [e \in 1..MaxEngines |-> NoEngine],
     pending        |-> [p \in 1..MaxPending |-> NoPending],
     retryTimers    |-> {},
     sessions       |-> 0,
     calls          |-> <<>>]

FreeEngines(v) == {e \in 1..MaxEngines : v.engines[e].kind = "none"}
FreeEngine(v)  == CHOOSE e \in FreeEngines(v) : \A f \in FreeEngines(v) : e <= f

FreePendings(v) == {p \in 1..MaxPending : v.pending[p].kind = "none"}
FreePending(v)  == CHOOSE p \in FreePendings(v) : \A f \in FreePendings(v) : p <= f

LiveEngines(v) == {e \in 1..MaxEngines : v.engines[e].kind # "none"}

\* setPlayerState(prev => ({...prev, isLoading: false, error: msg, ...}))
SetError(v, msg) ==
    IF v.mounted
    THEN [v EXCEPT !.playerState.isLoading = FALSE, !.playerState.error = msg]
    ELSE v

\* if (onError) onError()
CallOnError(v, idx) == [v EXCEPT !.calls = Append(@, idx)]

\* if (loadingTimeoutRef.current) clearTimeout(loadingTimeoutRef.current)
ClearLoadTimeout(v) == [v EXCEPT !.loadingTimeout = NoTimeout]

\* engine.destroy(): the instance is gone, a load it was running is interrupted
DestroyEngine(v, e) ==
    [v EXCEPT !.engines[e] = NoEngine,
              !.pending = [p \in 1..MaxPending |->
                              IF @[p].eng = e THEN [@[p] EXCEPT !.eng = 0] ELSE @[p]]]

\* a destroyPlayer that reports the teardown to the owner
destroyPlayerReporting(v, hasVideo) ==
    LET a == IF v.hlsRef # 0
             THEN [DestroyEngine(v, v.hlsRef) EXCEPT !.hlsRef = 0]
             ELSE v
        b == IF a.shakaPlayerRef # 0
             THEN [DestroyEngine(a, a.shakaPlayerRef) EXCEPT !.shakaPlayerRef = 0]
             ELSE a
        c == IF hasVideo THEN [b EXCEPT !.videoSrc = "empty"] ELSE b
    IN  CallOnError([ClearLoadTimeout(c) EXCEPT !.playerTypeRef = "null"], 0)

\* destroyPlayer(); hasVideo: videoRef.current is not null
destroyPlayer(v, hasVideo) ==
    LET a == IF v.hlsRef # 0
             THEN [DestroyEngine(v, v.hlsRef) EXCEPT !.hlsRef = 0]
             ELSE v
        b == IF a.shakaPlayerRef # 0
             THEN [DestroyEngine(a, a.shakaPlayerRef) EXCEPT !.shakaPlayerRef = 0]
             ELSE a
        c == IF hasVideo THEN [b EXCEPT !.videoSrc = "empty"] ELSE b
    IN  [ClearLoadTimeout(c) EXCEPT !.playerTypeRef = "null"]


(***************************************************************************)
(* Initialisation: initializePlayer and the three init* functions          *)
(***************************************************************************)
\* a throw inside init*: its catch calls onError and rethrows, the catch of
\* initializePlayer clears the timer, sets the error and calls onError
InitFailure(v, idx) ==
    CallOnError(SetError(ClearLoadTimeout(CallOnError(v, idx)), "init"), idx)

initNativePlayer(v, idx, gen) ==
    [v EXCEPT !.videoSrc  = "url",
              !.listeners = @ \o <<[ev |-> "loadedmetadata", idx |-> idx, gen |-> gen],
                                   [ev |-> "error", idx |-> idx, gen |-> gen]>>]

\* up to "await player.load(url)"
initShakaPlayer(v, idx, gen) ==
    IF browser = "none"
    THEN InitFailure(v, idx)
    ELSE LET e == FreeEngine(v)
             p == FreePending(v)
         IN  [v EXCEPT !.engines[e]     = [kind |-> "shaka", parsed |-> FALSE, stalled |-> "no",
                                           retryCount |-> 0, recovered |-> FALSE,
                                           idx |-> idx, gen |-> gen],
                       !.shakaPlayerRef = e,
                       !.videoSrc       = "mse",
                       !.pending[p]     = [kind |-> "load", eng |-> e, idx |-> idx, gen |-> gen]]

\* up to "await import('hls.js')"
initHlsPlayer(v, idx, gen) ==
    LET p == FreePending(v)
    IN  [v EXCEPT !.pending[p] = [kind |-> "import", eng |-> 0, idx |-> idx, gen |-> gen]]

initializePlayer(v, idx, gen) ==
    IF links[idx + 1] = <<>> \/ ~v.mounted
    THEN SetError(v, "nourl")
    ELSE LET d    == destroyPlayer(v, TRUE)
             s    == [d EXCEPT !.playerState.isLoading = TRUE,
                               !.playerState.error     = "none",
                               !.loadingTimeout        = [armed |-> TRUE, idx |-> idx, gen |-> gen]]
             type == detectStreamType(links[idx + 1])
         IN  CASE type = "dash" -> initShakaPlayer([s EXCEPT !.playerTypeRef = "shaka"], idx, gen)
               [] type = "hls"  -> initHlsPlayer([s EXCEPT !.playerTypeRef = "hls"], idx, gen)
               [] OTHER         -> initNativePlayer([s EXCEPT !.playerTypeRef = "native"], idx, gen)

\* the pools of the model have room for what initializePlayer(v, idx) creates
InitRoom(v, idx) ==
    LET d    == destroyPlayer(v, TRUE)
        type == detectStreamType(links[idx + 1])
    IN  \/ links[idx + 1] = <<>>
        \/ ~v.mounted
        \/ type = "dash" /\ (browser = "none" \/ (FreeEngines(d) # {} /\ FreePendings(d) # {}))
        \/ type = "hls" /\ FreePendings(d) # {}
        \/ type = "native" /\ Len(d.listeners) + 2 <= MaxListeners

(***************************************************************************)
(* Effect of VideoPlayer: mount, re-run on changed deps, unmount           *)
(***************************************************************************)
Regen(g, from, to) == IF g = from THEN to ELSE g

\* what the session that was current leaves behind becomes stale
MarkStale(v) ==
    [v EXCEPT !.engines        = [e \in 1..MaxEngines |-> [@[e] EXCEPT !.gen =
                                     IF v.engines[e].kind = "none" THEN "cur" ELSE Regen(@, "cur", "stale")]],
              !.pending        = [p \in 1..MaxPending |-> [@[p] EXCEPT !.gen =
                                     IF v.pending[p].kind = "none" THEN "cur" ELSE Regen(@, "cur", "stale")]],
              !.listeners      = [i \in 1..Len(@) |-> [@[i] EXCEPT !.gen = Regen(@, "cur", "stale")]],
              !.retryTimers    = {[t EXCEPT !.gen = Regen(@, "cur", "stale")] : t \in @}]

\* return () => { isMountedRef.current = false; destroyPlayer(); ... }
Cleanup(v, hasVideo) == destroyPlayer([v EXCEPT !.mounted = FALSE], hasVideo)

\* the instance is unmounted (videoRef.current is null when the cleanup runs):
\* its engines, continuations and timers that were not released outlive it
Retire(v) ==
    LET c == Cleanup(v, FALSE)
    IN  [FreshPlayer EXCEPT
            !.engines     = [e \in 1..MaxEngines |->
                                IF c.engines[e].kind = "none" THEN NoEngine
                                ELSE [c.engines[e] EXCEPT !.gen = "old"]],
            !.pending     = [p \in 1..MaxPending |->
                                IF c.pending[p].kind = "none" THEN NoPending
                                ELSE [c.pending[p] EXCEPT !.gen = "old"]],
            !.retryTimers = {[t EXCEPT !.gen = "old"] : t \in c.retryTimers},
            !.sessions    = c.sessions]

\* useEffect(() => { isMountedRef.current = true; initializePlayer(); ... })
RunEffect(v, idx) == initializePlayer([v EXCEPT !.mounted = TRUE], idx, "cur")

\* deps changed in the same instance: cleanup, then the effect again
RerunEffect(v, idx) == RunEffect(MarkStale(Cleanup(v, TRUE)), idx)

\* key changed: the old instance is unmounted and a new one mounted
Remount(v, idx) == RunEffect(Retire(v), idx)


(***************************************************************************)
(* Manifest proxy: api/m3u8-proxy.ts                                       *)
(***************************************************************************)
\* ALLOWED_ORIGINS: the list the environment gives, or the default list
DefaultOrigins == <<"https://imshep.vercel.app">>
EnvOrigins     == <<"https://a.example", "https://imshep.vercel.app">>

ALLOWED_ORIGINS == proxy.allowedOrigins

\* an allow-list test that every origin passes
OriginAllowedAny(origin) == TRUE

\* ALLOWED_ORIGINS.includes(origin)
OriginAllowed(origin) == \E i \in 1..Len(ALLOWED_ORIGINS) : ALLOWED_ORIGINS[i] = origin

\* a getCorsHeaders that echoes whatever Origin the request carries
getCorsHeadersReflecting(origin) ==
    IF origin # "" THEN origin ELSE ALLOWED_ORIGINS[1]

\* getCorsHeaders(origin)['Access-Control-Allow-Origin']; "" is no header
getCorsHeaders(origin) ==
    IF origin # "" /\ OriginAllowed(origin) THEN origin ELSE ALLOWED_ORIGINS[1]

\* new URL(request.url): url.origin and url.pathname of the proxy itself
ProxyOrigin   == <<"h", "t", "t", "p", "s", ":", "/", "/", "p">>
ProxyPathname == <<"/", "a", "p", "i", "/", "m", "3", "u", "8", "-", "p", "r", "o", "x", "y">>

\* new URL(u) for an absolute URL with an authority: protocol, host, pathname
ParseUrl(u) ==
    LET c    == IndexOf(u, <<":">>)
        rest == SubSeq(u, c + 3, Len(u))
        s    == IndexOf(rest, <<"/">>)
        host == IF s = 0 THEN rest ELSE SubSeq(rest, 1, s - 1)
        tail == IF s = 0 THEN <<"/">> ELSE SubSeq(rest, s, Len(rest))
        q    == IndexOf(tail, <<"?">>)
    IN  [protocol |-> SubSeq(u, 1, c),
         host     |-> host,
         pathname |-> IF q = 0 THEN tail ELSE SubSeq(tail, 1, q - 1)]

\* baseUrl.pathname.substring(0, baseUrl.pathname.lastIndexOf('/') + 1)
BasePath(baseUrl) ==
    LET hits == {i \in 1..Len(baseUrl.pathname) : baseUrl.pathname[i] = "/"}
        last == IF hits = {} THEN 0 ELSE CHOOSE i \in hits : \A j \in hits : i >= j
    IN  SubSeq(baseUrl.pathname, 1, last)

RECURSIVE encodeURIComponent(_)
encodeURIComponent(s) ==
    LET \* the characters encodeURIComponent leaves as they are
        Unreserved ==
            {"a", "b", "c", "d", "e", "f", "g", "h", "i", "j", "k", "l", "m", "n", "o",
             "p", "q", "r", "s", "t", "u", "v", "w", "x", "y", "z",
             "A", "B", "C", "D", "E", "F", "G", "H", "I", "J", "K", "L", "M", "N", "O",
             "P", "Q", "R", "S", "T", "U", "V", "W", "X", "Y", "Z",
             "0", "1", "2", "3", "4", "5", "6", "7", "8", "9",
             "-", "_", ".", "!", "~", "*", "'", "(", ")"}
        \* the two hexadecimal digits of the ASCII characters that are escaped
        HexCode(c) ==
            CASE c = "\t" -> <<"0", "9">>
              [] c = "\r" -> <<"0", "D">>
              [] c = " "  -> <<"2", "0">>
              [] c = "\"" -> <<"2", "2">>
              [] c = "#"  -> <<"2", "3">>
              [] c = "%"  -> <<"2", "5">>
              [] c = "&"  -> <<"2", "6">>
              [] c = ","  -> <<"2", "C">>
              [] c = "/"  -> <<"2", "F">>
              [] c = ":"  -> <<"3", "A">>
              [] c = "="  -> <<"3", "D">>
              [] c = "?"  -> <<"3", "F">>
    IN  IF s = <<>> THEN <<>>
        ELSE (IF Head(s) \in Unreserved THEN <<Head(s)>> ELSE <<"%">> \o HexCode(Head(s)))
                \o encodeURIComponent(Tail(s))

\* a resolveUrl without the protocol-relative tier
resolveUrlThreeTier(target, baseUrl, basePath) ==
    IF StartsWith(target, <<"h", "t", "t", "p", ":", "/", "/">>) \/ StartsWith(target, <<"h", "t", "t", "p", "s", ":", "/", "/">>)
    THEN target
    ELSE IF StartsWith(target, <<"/">>)
    THEN baseUrl.protocol \o <<"/", "/">> \o baseUrl.host \o target
    ELSE baseUrl.protocol \o <<"/", "/">> \o baseUrl.host \o basePath \o target

\* resolveUrl(target, baseUrl, basePath)
resolveUrl(target, baseUrl, basePath) ==
    IF StartsWith(target, <<"h", "t", "t", "p", ":", "/", "/">>) \/ StartsWith(target, <<"h", "t", "t", "p", "s", ":", "/", "/">>)
    THEN target
    ELSE IF StartsWith(target, <<"/", "/">>)
    THEN baseUrl.protocol \o target
    ELSE IF StartsWith(target, <<"/">>)
    THEN baseUrl.protocol \o <<"/", "/">> \o baseUrl.host \o target
    ELSE baseUrl.protocol \o <<"/", "/">> \o baseUrl.host \o basePath \o target

\* `${url.origin}${url.pathname}?url=${encodeURIComponent(absoluteUrl)}`
UrlParam == <<"?", "u", "r", "l", "=">>
ProxiedUrl(absoluteUrl) ==
    ProxyOrigin \o ProxyPathname \o UrlParam \o encodeURIComponent(absoluteUrl)

(***************************************************************************)
(* Client side of the proxy: lib/urlEncryption.ts                          *)
(***************************************************************************)
\* decodeURIComponent of a text whose escapes are well formed
RECURSIVE decodeURIComponent(_)
decodeURIComponent(s) ==
    LET \* the character a percent escape stands for
        HexChar(h) ==
            CASE h = <<"0", "9">> -> "\t"
              [] h = <<"0", "D">> -> "\r"
              [] h = <<"2", "0">> -> " "
              [] h = <<"2", "2">> -> "\""
              [] h = <<"2", "3">> -> "#"
              [] h = <<"2", "5">> -> "%"
              [] h = <<"2", "6">> -> "&"
              [] h = <<"2", "C">> -> ","
              [] h = <<"2", "F">> -> "/"
              [] h = <<"3", "A">> -> ":"
              [] h = <<"3", "D">> -> "="
              [] h = <<"3", "F">> -> "?"
    IN  IF s = <<>> THEN <<>>
        ELSE IF Head(s) = "%" /\ Len(s) >= 3
        THEN <<HexChar(SubSeq(s, 2, 3))>> \o decodeURIComponent(SubSeq(s, 4, Len(s)))
        ELSE <<Head(s)>> \o decodeURIComponent(Tail(s))

\* new URL(u, window.location.origin).searchParams.get('url'): the value of
\* the first query parameter named url, percent-decoded; <<>> stands for null
\* and for the empty value (the callers test truthiness). The texts have no "+"
SearchParamUrl(u) ==
    LET h      == IndexOf(u, <<"#">>)
        noHash == IF h = 0 THEN u ELSE SubSeq(u, 1, h - 1)
        q      == IndexOf(noHash, <<"?">>)
        query  == IF q = 0 THEN <<>> ELSE SubSeq(noHash, q + 1, Len(noHash))
        name   == <<"u", "r", "l", "=">>
        starts == {i \in 1..Len(query) : /\ i = 1 \/ query[i - 1] = "&"
                                         /\ i + 3 <= Len(query)
                                         /\ SubSeq(query, i, i + 3) = name}
        first  == CHOOSE i \in starts : \A k \in starts : i <= k
        rest   == SubSeq(query, first + 4, Len(query))
        amp    == IndexOf(rest, <<"&">>)
    IN  IF starts = {} THEN <<>>
        ELSE decodeURIComponent(IF amp = 0 THEN rest ELSE SubSeq(rest, 1, amp - 1))

\* a needsProxying that does not look for the proxy path
needsProxyingAnyStream(url) ==
    LET urlLower == toLowerCase(url)
    IN  /\ url # <<>>
        /\ \/ Includes(urlLower, <<".", "m", "3", "u", "8">>)
           \/ Includes(urlLower, <<".", "m", "3", "u">>)
           \/ Includes(urlLower, <<"/", "h", "l", "s", "/">>)
           \/ Includes(urlLower, <<"m", "3", "u", "8">>)
           \/ Includes(urlLower, <<".", "t", "s">>)
           \/ Includes(urlLower, <<"m", "a", "n", "i", "f", "e", "s", "t">>)

needsProxying(url) ==
    LET urlLower == toLowerCase(url)
    IN  /\ url # <<>>
        /\ ~Includes(urlLower, ProxyPathname)
        /\ \/ Includes(urlLower, <<".", "m", "3", "u", "8">>)
           \/ Includes(urlLower, <<".", "m", "3", "u">>)
           \/ Includes(urlLower, <<"/", "h", "l", "s", "/">>)
           \/ Includes(urlLower, <<"m", "3", "u", "8">>)
           \/ Includes(urlLower, <<".", "t", "s">>)
           \/ Includes(urlLower, <<"m", "a", "n", "i", "f", "e", "s", "t">>)

getProxiedUrl(originalUrl) ==
    IF originalUrl = <<>> THEN originalUrl
    ELSE IF Includes(originalUrl, ProxyPathname \o UrlParam) /\ SearchParamUrl(originalUrl) # <<>>
    THEN originalUrl
    ELSE IF needsProxying(originalUrl)
    THEN ProxyPathname \o UrlParam \o encodeURIComponent(originalUrl)
    ELSE originalUrl

\* the result is [ok |-> FALSE, ...] for null; decodeURIComponent throws a
\* URIError for a "%" that two hexadecimal digits do not follow
getOriginalUrl(proxiedUrl) ==
    LET null        == [ok |-> FALSE, url |-> <<>>]
        originalUrl == SearchParamUrl(proxiedUrl)
        HexDigits   == {"0", "1", "2", "3", "4", "5", "6", "7", "8", "9",
                        "A", "B", "C", "D", "E", "F", "a", "b", "c", "d", "e", "f"}
        malformed   == \E i \in 1..Len(originalUrl) :
                          /\ originalUrl[i] = "%"
                          /\ \/ i + 2 > Len(originalUrl)
                             \/ originalUrl[i + 1] \notin HexDigits
                             \/ originalUrl[i + 2] \notin HexDigits
    IN  IF proxiedUrl = <<>> \/ ~Includes(proxiedUrl, ProxyPathname \o UrlParam) THEN null
        ELSE IF originalUrl = <<>> \/ malformed THEN null
        ELSE [ok |-> TRUE, url |-> decodeURIComponent(originalUrl)]

UriAttribute == <<"U", "R", "I", "=", "\"">>

\* s.replace(/URI="([^"]+)"/g, (match, uri) => `URI="${proxied uri}"`)
RECURSIVE ReplaceUriAttributes(_, _, _)
ReplaceUriAttributes(s, baseUrl, basePath) ==
    LET i     == IndexOf(s, UriAttribute)
        after == SubSeq(s, i + Len(UriAttribute), Len(s))
        j     == IndexOf(after, <<"\"">>)
    IN  IF i = 0 \/ j = 0 THEN s
        ELSE IF j = 1
        THEN SubSeq(s, 1, i) \o ReplaceUriAttributes(SubSeq(s, i + 1, Len(s)), baseUrl, basePath)
        ELSE SubSeq(s, 1, i - 1) \o UriAttribute
                \o ProxiedUrl(resolveUrl(SubSeq(after, 1, j - 1), baseUrl, basePath))
                \o <<"\"">>
                \o ReplaceUriAttributes(SubSeq(after, j + 1, Len(after)), baseUrl, basePath)

\* text.split('\n')
RECURSIVE Split(_)
Split(text) ==
    LET i == IndexOf(text, <<"\n">>)
    IN  IF i = 0 THEN <<text>>
        ELSE <<SubSeq(text, 1, i - 1)>> \o Split(SubSeq(text, i + 1, Len(text)))

\* lines.join('\n')
RECURSIVE Join(_)
Join(lines) ==
    IF Len(lines) = 1 THEN lines[1]
    ELSE lines[1] \o <<"\n">> \o Join(Tail(lines))

\* the callback of text.split('\n').map(...)
RewriteLine(line, baseUrl, basePath) ==
    LET trimmedLine == Trim(line)
    IN  IF trimmedLine = <<>> \/ StartsWith(trimmedLine, <<"#", "E", "X", "T">>)
        THEN IF Includes(trimmedLine, UriAttribute)
             THEN ReplaceUriAttributes(trimmedLine, baseUrl, basePath)
             ELSE trimmedLine
        ELSE IF ~StartsWith(trimmedLine, <<"#">>)
        THEN ProxiedUrl(resolveUrl(trimmedLine, baseUrl, basePath))
        ELSE trimmedLine

\* the rewritten playlist of a response with body text and final URL responseUrl
RewritePlaylist(text, responseUrl) ==
    LET baseUrl == ParseUrl(responseUrl)
        lines   == Split(text)
    IN  Join([i \in 1..Len(lines) |-> RewriteLine(lines[i], baseUrl, BasePath(baseUrl))])

\* the test that makes the handler rewrite the body
IsPlaylist(contentType, targetUrl) ==
    \/ Includes(contentType, <<"m", "p", "e", "g", "u", "r", "l">>)
    \/ Includes(contentType, <<"m", "3", "u", "8">>)
    \/ Includes(contentType, <<"m", "3", "u">>)
    \/ Includes(contentType, <<"v", "n", "d", ".", "a", "p", "p", "l", "e", ".", "m", "p", "e", "g", "u", "r", "l">>)
    \/ Includes(toLowerCase(targetUrl), <<".", "m", "3", "u", "8">>)
    \/ Includes(toLowerCase(targetUrl), <<".", "m", "3", "u">>)

\* requests, upstream responses and proxy responses
NoRequest  == [method |-> "", origin |-> "", target |-> <<>>, range |-> ""]
NoUpstream == [status |-> 0, contentType |-> <<>>, url |-> <<>>, text |-> <<>>,
               readable |-> TRUE]
NoResponse == [status |-> 0, error |-> "", contentType |-> <<>>, body |-> <<>>,
               allowOrigin |-> ""]

IdleProxy == [phase |-> "idle", allowedOrigins |-> DefaultOrigins, req |-> NoRequest,
              fetches |-> 0, upRange |-> "", upstream |-> NoUpstream, resp |-> NoResponse]

PlaylistUrl == <<"h", "t", "t", "p", ":", "/", "/", "o", "/", "d", "/", "p", ".", "m", "3", "u", "8">>
SegmentUrl  == <<"h", "t", "t", "p", ":", "/", "/", "o", "/", "d", "/", "s", ".", "t", "s">>
RedirectUrl == <<"h", "t", "t", "p", "s", ":", "/", "/", "r", "/", "e", "/", "q">>

\* the proxy with a request received under an allow-list
Received ==
    LET \* a segment below a directory whose name holds a playlist extension
        NestedUrl == <<"h", "t", "t", "p", ":", "/", "/", "o", "/", "d", ".", "m", "3", "u", "8",
                       "/", "s", ".", "t", "s">>
        \* request.method, the Origin and Range headers ("" is headers.get(...)
        \* giving null) and the url query parameter (<<>> is
        \* searchParams.get('url') giving null or '')
        Requests ==
            [method : {"GET", "OPTIONS"},
             origin : {"", "https://imshep.vercel.app", "https://other.example"},
             target : {<<>>, PlaylistUrl, SegmentUrl},
             range  : {"", "bytes=0-99"}]
        \* the requests handled under the allow-list of the environment
        EnvRequests ==
            [method : {"GET", "OPTIONS"},
             origin : {"", "https://imshep.vercel.app", "https://a.example",
                       "https://other.example"},
             target : {<<>>, SegmentUrl},
             range  : {""}]
        \* the requests for the segment below the playlist-named directory
        NestedRequests ==
            [method : {"GET"}, origin : {"https://imshep.vercel.app"}, target : {NestedUrl},
             range  : {"", "bytes=0-99"}]
    IN  {[IdleProxy EXCEPT !.phase = "received", !.req = r] : r \in Requests \cup NestedRequests}
            \cup {[IdleProxy EXCEPT !.phase = "received", !.allowedOrigins = EnvOrigins,
                                    !.req = r] : r \in EnvRequests}

\* what a playlist line can hold, and the white space around it
Lines ==
    LET LineBodies ==
            {<<"h", "t", "t", "p", ":", "/", "/", "c", "/", "s", ".", "t", "s">>,
             <<"h", "t", "t", "p", "s", ":", "/", "/", "c", "/", "s", ".", "t", "s">>,
             <<"/", "/", "c", "/", "s", ".", "t", "s">>,
             <<"/", "s", ".", "t", "s">>,
             <<"s", ".", "t", "s">>,
             <<"#", "E", "X", "T", "I", "N", "F", ":", "4", ",">>,
             <<"#", "E", "X", "T", "-", "X", "-", "K", "E", "Y", ":", "U", "R", "I", "=",
               "\"", "k", "\"">>,
             <<"#", "c">>,
             <<>>}
        Paddings == {[lead |-> <<>>, trail |-> <<>>],
                     [lead |-> <<>>, trail |-> <<"\r">>],
                     [lead |-> <<" ">>, trail |-> <<"\r">>]}
    IN  {p.lead \o b \o p.trail : p \in Paddings, b \in LineBodies}

\* the bodies: 1..MaxLines lines joined by line feeds
RECURSIVE TextsOf(_)
TextsOf(n) ==
    IF n = 1 THEN Lines
    ELSE {t \o <<"\n">> \o l : t \in TextsOf(n - 1), l \in Lines}

Texts == UNION {TextsOf(n) : n \in 1..MaxLines}

ContentTypes == {<<"a", "p", "p", "l", "i", "c", "a", "t", "i", "o", "n", "/", "v", "n", "d", ".", "a", "p", "p", "l", "e", ".", "m", "p", "e", "g", "u", "r", "l">>,
                 <<"v", "i", "d", "e", "o", "/", "m", "p", "2", "t">>,
                 <<>>}

\* what the upstream can answer to the fetch of target: a body that
\* response.text() reads, an error status, or a body whose read fails
UpstreamResponses(target) ==
    [status : {200}, contentType : ContentTypes, url : {target, RedirectUrl}, text : Texts,
     readable : {TRUE}]
        \cup [status : {206}, contentType : ContentTypes, url : {target}, text : {<<"s">>},
               readable : {TRUE}]
        \cup [status : {404, 503}, contentType : ContentTypes, url : {target}, text : {<<>>},
               readable : {TRUE}]
        \cup [status : {200}, contentType : ContentTypes, url : {target}, text : {<<>>},
               readable : {FALSE}]

(***************************************************************************)
(* Calls of the pure helpers: detectStreamType and getTimeStats            *)
(***************************************************************************)
\* JavaScript numbers: a finite value, Infinity or NaN
Num(v)   == [kind |-> "num", v |-> v]
Infinity == [kind |-> "inf", v |-> 0]
NaN      == [kind |-> "nan", v |-> 0]

isFinite(x) == x.kind = "num"

\* getTimeStats(video) with the refs it reads; m holds video (hasVideo is
\* video not being null, duration, currentTime, seekable), playerTypeRef,
\* shakaPlayerRef (TRUE is a player) and what its seekRange() does
getTimeStats(m) ==
    IF ~m.hasVideo
    THEN [currentTime |-> Num(0), duration |-> Num(0), startTime |-> Num(0), isLive |-> FALSE]
    ELSE LET shaka    == m.playerTypeRef = "shaka" /\ m.shakaPlayerRef
             hasRange == shaka /\ m.seekRange.outcome = "range"
             native   == ~shaka /\ Len(m.seekable) > 0
             start    == IF hasRange THEN m.seekRange.start
                         ELSE IF native THEN m.seekable[1].start
                         ELSE Num(0)
             end      == IF hasRange THEN m.seekRange.end
                         ELSE IF native THEN m.seekable[Len(m.seekable)].end
                         ELSE NaN
             fixed    == (hasRange \/ native) /\ isFinite(end) /\ end.v > 0
             duration == IF fixed THEN end ELSE m.duration
         IN  [currentTime |-> m.currentTime,
              duration    |-> IF ~isFinite(duration) THEN Num(0) ELSE duration,
              startTime   |-> IF ~isFinite(start) \/ start.v < 0 THEN Num(0) ELSE start,
              isLive      |-> IF fixed THEN FALSE ELSE ~isFinite(m.duration)]

(***************************************************************************)
(* Catalog extraction: api/parse-m3u.ts parseM3U                           *)
(***************************************************************************)
\* a channel id without the position of the channel
ChannelIdWithoutIndex(categoryId, name, k) ==
    LET Alnum == {"a", "b", "c", "d", "e", "f", "g", "h", "i", "j", "k", "l", "m", "n", "o",
                  "p", "q", "r", "s", "t", "u", "v", "w", "x", "y", "z",
                  "A", "B", "C", "D", "E", "F", "G", "H", "I", "J", "K", "L", "M", "N", "O",
                  "P", "Q", "R", "S", "T", "U", "V", "W", "X", "Y", "Z",
                  "0", "1", "2", "3", "4", "5", "6", "7", "8", "9"}
        clean == toLowerCase([i \in 1..Len(name) |-> IF name[i] \in Alnum THEN name[i] ELSE "_"])
    IN  categoryId \o <<"_">> \o clean

\* currentChannel.name.replace(/[^a-zA-Z0-9]/g, '_').toLowerCase() and
\* `${categoryId}_${cleanChannelName}_${channels.length}`, k = channels.length
ChannelId(categoryId, name, k) ==
    LET Alnum == {"a", "b", "c", "d", "e", "f", "g", "h", "i", "j", "k", "l", "m", "n", "o",
                  "p", "q", "r", "s", "t", "u", "v", "w", "x", "y", "z",
                  "A", "B", "C", "D", "E", "F", "G", "H", "I", "J", "K", "L", "M", "N", "O",
                  "P", "Q", "R", "S", "T", "U", "V", "W", "X", "Y", "Z",
                  "0", "1", "2", "3", "4", "5", "6", "7", "8", "9"}
        clean == toLowerCase([i \in 1..Len(name) |-> IF name[i] \in Alnum THEN name[i] ELSE "_"])
        Digit(d) == <<"0", "1", "2", "3", "4", "5", "6", "7", "8", "9">>[d + 1]
        \* the decimal digits of k < 100
        decimal == IF k < 10 THEN <<Digit(k)>> ELSE <<Digit(k \div 10), Digit(k % 10)>>
    IN  categoryId \o <<"_">> \o clean \o <<"_">> \o decimal

\* the channels of a playlist text, in the order they are pushed
parseM3U(m3uContent, categoryId, categoryName) ==
    LET split == Split(m3uContent)
        lines == SelectSeq([i \in 1..Len(split) |-> Trim(split[i])], LAMBDA l : l # <<>>)
        quote == <<"\"">>
        \* line.match(/key="([^"]+)"/)[1], or <<>> when there is no match
        Attr(line, key) ==
            LET open == key \o <<"=", "\"">>
                hits == {i \in 1..Len(line) :
                            /\ i + Len(open) <= Len(line)
                            /\ SubSeq(line, i, i + Len(open) - 1) = open
                            /\ line[i + Len(open)] # "\""
                            /\ \E j \in (i + Len(open) + 1)..Len(line) : line[j] = "\""}
                first == CHOOSE i \in hits : \A j \in hits : i <= j
                rest  == SubSeq(line, first + Len(open), Len(line))
            IN  IF hits = {} THEN <<>> ELSE SubSeq(rest, 1, IndexOf(rest, quote) - 1)
        \* line.match(/group-title="[^"]*",\s*(.+)$/)[1], or <<>>
        AfterGroupTitle(line) ==
            LET open == <<"g", "r", "o", "u", "p", "-", "t", "i", "t", "l", "e", "=", "\"">>
                tail(i) == SubSeq(line, i + Len(open), Len(line))
                hits == {i \in 1..Len(line) :
                            /\ i + Len(open) - 1 <= Len(line)
                            /\ SubSeq(line, i, i + Len(open) - 1) = open
                            /\ IndexOf(tail(i), quote) # 0
                            /\ IndexOf(tail(i), quote) + 2 <= Len(tail(i))
                            /\ tail(i)[IndexOf(tail(i), quote) + 1] = ","}
                first == CHOOSE i \in hits : \A j \in hits : i <= j
                rest  == tail(first)
            IN  IF hits = {} THEN <<>>
                ELSE TrimStart(SubSeq(rest, IndexOf(rest, quote) + 2, Len(rest)))
        \* line.match(/,\s*([^,]+)$/)[1], or <<>>
        AfterLastComma(line) ==
            LET hits == {i \in 1..(Len(line) - 1) :
                            /\ line[i] = ","
                            /\ \A j \in (i + 1)..Len(line) : line[j] # ","}
            IN  IF hits = {} THEN <<>>
                ELSE TrimStart(SubSeq(line, (CHOOSE i \in hits : TRUE) + 1, Len(line)))
        channelName(line) ==
            IF Attr(line, <<"t", "v", "g", "-", "n", "a", "m", "e">>) # <<>>
            THEN Trim(Attr(line, <<"t", "v", "g", "-", "n", "a", "m", "e">>))
            ELSE IF AfterGroupTitle(line) # <<>> THEN Trim(AfterGroupTitle(line))
            ELSE IF AfterLastComma(line) # <<>> THEN Trim(AfterLastComma(line))
            ELSE <<"U", "n", "k", "n", "o", "w", "n", " ", "C", "h", "a", "n", "n", "e", "l">>
        placeholder == <<"/", "c", "h", "a", "n", "n", "e", "l", "-", "p", "l", "a", "c", "e", "h", "o", "l", "d", "e", "r", ".", "s", "v", "g">>
        \* refererPart.match(/(?:Referer|referer)=(.+)/)[1].trim(), or <<>>
        Referer(line) ==
            LET bar   == IndexOf(line, <<"|">>)
                after == SubSeq(line, bar + 1, Len(line))
                next  == IndexOf(after, <<"|">>)
                part  == IF next = 0 THEN after ELSE SubSeq(after, 1, next - 1)
                hits  == {i \in 1..(Len(part) - 8) :
                             SubSeq(part, i, i + 7) \in {<<"R", "e", "f", "e", "r", "e", "r", "=">>,
                                                         <<"r", "e", "f", "e", "r", "e", "r", "=">>}}
                first == CHOOSE i \in hits : \A j \in hits : i <= j
            IN  IF hits = {} THEN <<>> ELSE Trim(SubSeq(part, first + 8, Len(part)))
        Channel(line, cur, k) ==
            LET withReferer == \/ Includes(line, <<"|", "R", "e", "f", "e", "r", "e", "r", "=">>)
                               \/ Includes(line, <<"|", "r", "e", "f", "e", "r", "e", "r", "=">>)
                streamUrl   == IF withReferer
                               THEN Trim(SubSeq(line, 1, IndexOf(line, <<"|">>) - 1))
                               ELSE line
                referer     == IF withReferer THEN Referer(line) ELSE <<>>
            IN  [id           |-> ChannelId(categoryId, cur.name, k),
                 name         |-> cur.name,
                 logoUrl      |-> IF cur.logoUrl = <<>> THEN placeholder ELSE cur.logoUrl,
                 streamUrl    |-> IF referer # <<>>
                                  THEN streamUrl \o <<"?", "_", "_", "r", "e", "f", "e", "r", "e", "r", "=">>
                                          \o encodeURIComponent(referer)
                                  ELSE streamUrl,
                 categoryId   |-> categoryId,
                 categoryName |-> categoryName]
        \* currentChannel = {}: no name
        none == [name |-> <<>>, logoUrl |-> <<>>]
        RECURSIVE Loop(_, _, _)
        Loop(i, channels, cur) ==
            IF i > Len(lines) THEN channels
            ELSE IF StartsWith(lines[i], <<"#", "E", "X", "T", "I", "N", "F", ":">>)
            THEN Loop(i + 1, channels,
                      [name    |-> channelName(lines[i]),
                       logoUrl |-> IF Attr(lines[i], <<"t", "v", "g", "-", "l", "o", "g", "o">>) = <<>> THEN placeholder
                                   ELSE Attr(lines[i], <<"t", "v", "g", "-", "l", "o", "g", "o">>)])
            ELSE IF ~StartsWith(lines[i], <<"#">>) /\ cur.name # <<>>
            THEN Loop(i + 1, Append(channels, Channel(lines[i], cur, Len(channels))), none)
            ELSE Loop(i + 1, channels, cur)
    IN  Loop(1, <<>>, none)

\* raw URLs: a playable part, then nothing or the delimiter and a DRM block
ClassifierUrls ==
    LET bases  == {<<"a", ".", "m", "3", "u", "8">>,
                   <<"A", ".", "M", "3", "U", "8">>,
                   <<"x", "/", "h", "l", "s", "/", "y">>,
                   <<"h", "l", "s", ".", "m", "p", "d">>,
                   <<"/", "a", "p", "i", "/", "m", "3", "u", "8", "-", "p", "r", "o", "x", "y", "?", "u", "r", "l", "=", "b", ".", "m", "p", "d">>,
                   <<"b", ".", "m", "p", "d">>,
                   <<"x", "/", "d", "a", "s", "h", "/", "y">>,
                   <<"D", "a", "s", "h", ".", "m", "p", "4">>,
                   <<"c", ".", "m", "p", "4">>,
                   <<"c", ".", "w", "e", "b", "m">>,
                   <<"c", ".", "M", "O", "V">>,
                   <<"m", "a", "n", "i", "f", "e", "s", "t", ".", "m", "p", "4">>,
                   <<"M", "a", "n", "i", "f", "e", "s", "t">>,
                   <<"x">>}
        blocks == {<<>>,
                   <<"?", "|">>,
                   <<"?", "|", "s", "=", "1", "&", "l", "=", "2">>,
                   <<"?", "|", "t", "=", "1">>,
                   <<"?", "|", "s", "=", "1">>,
                   <<"?", "|", "k", "=", "v">>,
                   <<"?", "|", "t", "=", "h", "l", "s">>}
    IN  {b \o d : b \in bases, d \in blocks}

\* what getTimeStats can find: the video element (or none), the engine refs,
\* the outcome of seekRange() and the seekable ranges of the element
Media ==
    LET ranges == {[start |-> Num(0), end |-> Num(0)],
                   [start |-> Num(10), end |-> Num(60)],
                   [start |-> Num(0), end |-> Infinity],
                   [start |-> Num(10), end |-> Infinity]}
    IN  [hasVideo       : {TRUE},
         currentTime    : {Num(1)},
         duration       : {Num(5), Num(100), Infinity, NaN},
         playerTypeRef  : {"shaka", "hls", "native"},
         shakaPlayerRef : BOOLEAN,
         seekRange      : [outcome : {"range"}, start : {Num(0)}, end : {Num(0)}]
                              \cup [outcome : {"range"}, start : {Num(10)}, end : {Num(60)}]
                              \cup [outcome : {"range"}, start : {Num(0), Num(10)}, end : {Infinity}]
                              \cup [outcome : {"null", "throws"}, start : {Num(0)}, end : {Num(0)}],
         seekable       : {<<>>} \cup {<<r>> : r \in ranges}
                              \cup {<<[start |-> Num(-5), end |-> Num(20)],
                                      [start |-> Num(30), end |-> Num(50)]>>}]
        \cup {[hasVideo |-> FALSE, currentTime |-> Num(0), duration |-> NaN,
                playerTypeRef |-> "null", shakaPlayerRef |-> FALSE,
                seekRange |-> [outcome |-> "null", start |-> Num(0), end |-> Num(0)],
                seekable |-> <<>>]}

\* the selection handlers: the call made on the engine, if any, and the state
\* update setPlayerState(prev => ({...prev, ...})); m: the refs, the tracks
\* the engine offers, and the state the update is applied to
changeQualityResetting(m, qualityId) ==
    [engine |-> "none",
     state  |-> [m.state EXCEPT !.currentQuality = qualityId, !.currentTime = 0,
                                !.showControls = TRUE, !.showSettings = FALSE]]

changeQuality(m, qualityId) ==
    [engine |-> IF m.playerTypeRef = "hls" /\ m.engine THEN "currentLevel"
                ELSE IF m.playerTypeRef = "shaka" /\ m.engine
                THEN IF qualityId = -1 THEN "abrOn"
                     ELSE IF qualityId \in m.tracks THEN "selectVariantTrack"
                     ELSE "abrOff"
                ELSE "none",
     state  |-> [m.state EXCEPT !.currentQuality = qualityId,
                                !.showControls = TRUE, !.showSettings = FALSE]]

\* subtitleId: '' (off) or the id of a text track as a string; here -1 is ''
changeSubtitle(m, subtitleId) ==
    [engine |-> IF m.playerTypeRef = "shaka" /\ m.engine
                THEN IF subtitleId = -1 THEN "hideText"
                     ELSE IF subtitleId \in m.tracks THEN "selectTextTrack"
                     ELSE "none"
                ELSE "none",
     state  |-> [m.state EXCEPT !.currentSubtitle = subtitleId,
                                !.showControls = TRUE, !.showSettings = FALSE]]

changeAudioTrack(m, trackId) ==
    [engine |-> IF m.playerTypeRef = "hls" /\ m.engine THEN "audioTrack"
                ELSE IF m.playerTypeRef = "shaka" /\ m.engine /\ trackId \in m.tracks
                THEN "selectAudioLanguage"
                ELSE "none",
     state  |-> [m.state EXCEPT !.currentAudioTrack = trackId,
                                !.showControls = TRUE, !.showSettings = FALSE]]

IdleCall == [fn |-> "none"]

\* the calls made: one helper, its input, and no result yet
Calls ==
    LET \* the player state a selection is made in, and what the engine offers
        states  == [currentTime : {7}, duration : {Num(60)}, startTime : {Num(10)},
                    isLive : BOOLEAN, error : {"none", "network"}, isLoading : BOOLEAN,
                    currentQuality : {-1}, currentSubtitle : {-1},
                    currentAudioTrack : {-1},
                    showControls : {FALSE}, showSettings : BOOLEAN]
        players == [playerTypeRef : {"hls", "shaka", "native"}, engine : BOOLEAN,
                    tracks : {{0, 1}}, state : states]
        ids     == {-1, 0, 9}
        \* stream URLs handed to getProxiedUrl: plain, with a query, with a
        \* percent escape, with a bare "%", direct files, and proxy URLs
        \* playlist lines: #EXTINF lines that name the channel by tvg-name, after
        \* group-title, after the last comma, not at all, or by a blank tvg-name;
        \* another tag; two stream lines, one with a referer; a blank line
        entries == {<<"#", "E", "X", "T", "I", "N", "F", ":", "-", "1", " ", "t", "v", "g", "-", "n", "a", "m", "e", "=", "\"", "A", " ", "b", "\"", " ", "t", "v", "g", "-", "l", "o", "g", "o", "=", "\"", "l", "\"", ",", "x">>,
                    <<"#", "E", "X", "T", "I", "N", "F", ":", "-", "1", " ", "g", "r", "o", "u", "p", "-", "t", "i", "t", "l", "e", "=", "\"", "g", "\"", ",", " ", "A", "-", "b">>,
                    <<"#", "E", "X", "T", "I", "N", "F", ":", "0", ",", "C">>,
                    <<"#", "E", "X", "T", "I", "N", "F", ":", "0">>,
                    <<"#", "E", "X", "T", "I", "N", "F", ":", "0", " ", "t", "v", "g", "-", "n", "a", "m", "e", "=", "\"", " ", "\"", ",", "x">>,
                    <<"#", "E", "X", "T", "V", "L", "C", ":", "o">>,
                    <<"u">>,
                    <<"v", " ", "|", "R", "e", "f", "e", "r", "e", "r", "=", "r", "/", "s", "|", "x">>,
                    <<" ", " ">>}
        streams == {<<"a", ".", "m", "3", "u", "8">>,
                    <<"h", ":", "/", "/", "x", "/", "a", ".", "m", "3", "u", "8", "?", "t", "=", "1", "&", "k", "=", "2">>,
                    <<"a", "%", "2", "F", "b", ".", "m", "3", "u", "8">>,
                    <<"5", "%", ".", "t", "s">>,
                    <<"A", ".", "M", "3", "U", "8">>,
                    <<"a", ".", "m", "p", "4">>,
                    <<>>,
                    <<"/", "a", "p", "i", "/", "m", "3", "u", "8", "-", "p", "r", "o", "x", "y", "?", "u", "r", "l", "=", "a", ".", "m", "3", "u", "8">>,
                    <<"/", "a", "p", "i", "/", "m", "3", "u", "8", "-", "p", "r", "o", "x", "y", "?", "u", "r", "l", "=">>,
                    <<"/", "a", "p", "i", "/", "m", "3", "u", "8", "-", "p", "r", "o", "x", "y">>,
                    <<"/", "h", "l", "s", "/", "a">>,
                    <<"m", "a", "n", "i", "f", "e", "s", "t", "#", "x">>}
    IN  {[fn |-> "detectStreamType", url |-> u, done |-> FALSE] : u \in ClassifierUrls}
            \cup {[fn |-> "getProxiedUrl", url |-> u, done |-> FALSE] : u \in streams}
            \cup {[fn |-> "parseM3U", content |-> Join(p), categoryId |-> c, done |-> FALSE] :
                     p \in UNION {[1..n -> entries] : n \in 1..MaxEntries},
                     c \in {<<"c", "1">>, <<"c", "_", "2">>}}
            \cup {[fn |-> "getTimeStats", media |-> m, done |-> FALSE] : m \in Media}
            \cup {[fn |-> f, media |-> m, id |-> i, done |-> FALSE] :
                     f \in {"changeQuality", "changeSubtitle", "changeAudioTrack"},
                     m \in players, i \in ids}

(***************************************************************************)
(* Progress bar of VideoPlayer.tsx: seek by click, mouse drag and touch    *)
(***************************************************************************)
\* const { currentTime, duration, startTime, isLive } = getTimeStats(video);
\* setPlayerState(prev => ({ ...prev, currentTime, duration, startTime, isLive }))
\* the element reports (u.media) "vod", a seekable window [10, 60], or "live",
\* an infinite duration and no seekable range
updateStateWithTime(u) ==
    LET live  == u.media = "live"
        video == [hasVideo       |-> TRUE,
                  currentTime    |-> Num(u.video.currentTime),
                  duration       |-> IF live THEN Infinity ELSE Num(60),
                  playerTypeRef  |-> "native",
                  shakaPlayerRef |-> FALSE,
                  seekRange      |-> [outcome |-> "null", start |-> Num(0), end |-> Num(0)],
                  seekable       |-> IF live THEN <<>>
                                     ELSE <<[start |-> Num(10), end |-> Num(60)]>>]
        s     == getTimeStats(video)
    IN  [u EXCEPT !.playerState.currentTime = s.currentTime.v,
                  !.playerState.duration    = s.duration,
                  !.playerState.startTime   = s.startTime,
                  !.playerState.isLive      = s.isLive]

\* the time under clientX = x halves of the bar, or null; s: the isLive,
\* duration and startTime of the render the callback belongs to
calculateNewTime(s, x) ==
    IF ~isFinite(s.duration) \/ s.duration.v <= 0 \/ s.isLive
    THEN [kind |-> "null", v |-> 0]
    ELSE LET clickX == IF x < 0 THEN 0 ELSE IF x > MaxHalf THEN MaxHalf ELSE x
         IN  Num(s.startTime.v + (clickX * (s.duration.v - s.startTime.v)) \div MaxHalf)

\* rafRef: no animation frame requested
NoFrame == [kind |-> "none", x |-> 0, duration |-> Num(0), startTime |-> Num(0),
            isLive |-> FALSE]

\* the player before the stream is ready; target: where seekTimeRef is from:
\* "none", a move of the "current" interaction, or an "earlier" interaction
IdleUi ==
    [media                   |-> "vod",
     video                   |-> [paused |-> TRUE, currentTime |-> 0],
     playerState             |-> [currentTime |-> 0, duration |-> Num(0),
                                  startTime |-> Num(0), isLive |-> FALSE,
                                  isSeeking |-> FALSE, isPlaying |-> FALSE,
                                  showControls |-> TRUE],
     dragStartRef            |-> FALSE,
     touchStartRef           |-> FALSE,
     wasPlayingBeforeSeekRef |-> FALSE,
     seekTimeRef             |-> 0,
     rafRef                  |-> NoFrame,
     target                  |-> "none"]

(***************************************************************************)
(* Steps                                                                   *)
(***************************************************************************)
\* the instance at the start of a handler run: no onError call made yet
Begin == [vp EXCEPT !.calls = <<>>]

\* the page starts one more load
Charge(v) == [v EXCEPT !.sessions = @ + 1]

\* the end of a handler run of VideoPlayer: its onError calls reach EventPlayer
Finish(v) ==
    LET q == IF view = "shown" THEN Notify(updateQueue, v.calls, currentLinkIndex)
             ELSE updateQueue
    IN  /\ Len(q) <= MaxQueue
        /\ updateQueue' = q
        /\ vp' = v
        /\ UNCHANGED <<links, browser, view, currentLinkIndex, proxy, call, ui>>

Init ==
    /\ links \in LinkLists
    /\ browser \in {"mse", "nativeHls", "none"}
    /\ view = "init"
    /\ currentLinkIndex = 0
    /\ updateQueue = <<>>
    /\ vp = FreshPlayer
    /\ netErrs = 0
    /\ proxy = IdleProxy
    /\ call = IdleCall
    /\ ui = IdleUi

\* the event is loaded and EventPlayer renders VideoPlayer for the first time
Mount ==
    /\ view = "init"
    /\ InitRoom([Begin EXCEPT !.mounted = TRUE], currentLinkIndex)
    /\ LET v == Charge(RunEffect(Begin, currentLinkIndex))
       IN  /\ vp' = v
           /\ updateQueue' = Notify(<<>>, v.calls, currentLinkIndex)
    /\ view' = "shown"
    /\ netErrs' = 0
    /\ UNCHANGED <<links, browser, currentLinkIndex, proxy, call, ui>>

\* EventPlayer renders with currentLinkIndex = j
Commit(j) ==
    IF j = currentLinkIndex
    THEN \* the state is what it was: React skips the children
         /\ updateQueue' = <<>>
         /\ UNCHANGED <<links, browser, view, currentLinkIndex, vp, netErrs, proxy, call, ui>>
    ELSE IF j >= Len(links)
    THEN \* event.links[j] is undefined: reading currentLink.url throws
         /\ view' = "crashed"
         /\ currentLinkIndex' = j
         /\ updateQueue' = <<>>
         /\ vp' = Retire(Begin)
         /\ UNCHANGED <<links, browser, netErrs, proxy, call, ui>>
    ELSE LET same == links[j + 1] = links[currentLinkIndex + 1]
             \* same key: the instance stays and its effect runs again, since
             \* onError and with it initializePlayer are new functions
             base == IF same THEN MarkStale(Cleanup(Begin, TRUE)) ELSE Retire(Begin)
             v    == Charge(IF same THEN RerunEffect(Begin, j) ELSE Remount(Begin, j))
         IN  /\ InitRoom([base EXCEPT !.mounted = TRUE], j)
             /\ vp.sessions < MaxSessions
             /\ currentLinkIndex' = j
             /\ vp' = v
             /\ updateQueue' = Notify(<<>>, v.calls, j)
             /\ netErrs' = 0
             /\ UNCHANGED <<links, browser, view, proxy, call, ui>>

\* the render React has scheduled for the queued updates
Render ==
    /\ view = "shown"
    /\ updateQueue # <<>>
    /\ Commit(ApplyQueue(updateQueue, currentLinkIndex))

\* the server selector: onClick={() => setCurrentLinkIndex(index)}; an update
\* made in a click handler is rendered before the handler returns, and it
\* overrides the updates queued before it
ManualSelect(i) ==
    /\ view = "shown"
    /\ Dispatch(updateQueue, SetUpdate(i), currentLinkIndex) # <<>>
    /\ Commit(i)

\* the user leaves the page: VideoPlayer is unmounted
Unmount ==
    /\ view = "shown"
    /\ view' = "closed"
    /\ vp' = Retire(Begin)
    /\ UNCHANGED <<links, browser, currentLinkIndex, updateQueue, netErrs, proxy, call, ui>>

\* the callback of the load timer (PLAYER_LOAD_TIMEOUT)
LoadTimeout ==
    /\ vp.loadingTimeout.armed
    /\ LET t == vp.loadingTimeout
           v == IF vp.mounted
                THEN destroyPlayer(CallOnError(SetError(Begin, "timeout"), t.idx), TRUE)
                ELSE [Begin EXCEPT !.loadingTimeout = NoTimeout]
       IN  Finish(v)
    /\ UNCHANGED netErrs

\* initHlsPlayer after "await import('hls.js')"; ok: the import resolved
HlsImportSettled(p, ok) ==
    LET r == vp.pending[p]
        b == [Begin EXCEPT !.pending[p] = NoPending]
    IN  /\ r.kind = "import"
        /\ IF ok /\ browser = "mse"
           THEN \* new Hls(...); hlsRef.current = hls; hls.loadSource; hls.attachMedia
                /\ FreeEngines(b) # {}
                /\ LET e   == FreeEngine(b)
                       eng == [kind |-> "hls", parsed |-> FALSE, stalled |-> "no",
                               retryCount |-> 0, recovered |-> FALSE,
                               idx |-> r.idx, gen |-> r.gen]
                   IN  Finish(IF r.gen = "old"
                              THEN [b EXCEPT !.engines[e] = eng]
                              ELSE [b EXCEPT !.engines[e] = eng, !.hlsRef = e,
                                             !.videoSrc = "mse"])
           ELSE IF ok /\ browser = "nativeHls"
           THEN \* video.canPlayType('application/vnd.apple.mpegurl')
                /\ r.gen # "old" => Len(b.listeners) + 2 <= MaxListeners
                /\ Finish(IF r.gen = "old" THEN b ELSE initNativePlayer(b, r.idx, r.gen))
           ELSE Finish(InitFailure(b, r.idx))
        /\ UNCHANGED netErrs

\* hls.on(Hls.Events.ERROR, ...) with data.fatal, of engine e
HlsError(e, type) ==
    LET eng == vp.engines[e]
        v1  == [ClearLoadTimeout(Begin) EXCEPT !.engines[e].recovered = FALSE]
        act == e = vp.hlsRef
        \* after a fatal error hls.js loads nothing more until startLoad()
        halt(v) == IF v.engines[e].kind = "none" THEN v
                   ELSE [v EXCEPT !.engines[e].stalled = "halted"]
        fatal(msg) == Finish(halt(destroyPlayer(
                                 CallOnError(SetError(v1, msg), eng.idx), TRUE)))
    IN  /\ eng.kind = "hls"
        /\ eng.gen # "old"
        /\ vp.mounted
        /\ eng.stalled = "no"
        /\ CASE type = "network" ->
                  /\ UNCHANGED netErrs
                  /\ IF eng.retryCount < maxRetries
                     THEN Finish([v1 EXCEPT !.engines[e].retryCount = @ + 1,
                                            !.engines[e].stalled = "backoff"])
                     ELSE fatal("network")
             [] type = "media" ->
                  \* hls.recoverMediaError()
                  /\ Finish(v1)
                  /\ UNCHANGED netErrs
             [] type = "recoverThrows" ->
                  \* hls.recoverMediaError() throws and the listener has no
                  \* try/catch: the emitter of hls.js catches the exception and,
                  \* depending on its version, logs it or triggers a fatal
                  \* ERROR of type otherError, which this listener handles
                  /\ Finish(v1) \/ fatal("playback")
                  /\ UNCHANGED netErrs
             [] OTHER ->
                  /\ fatal("playback")
                  /\ UNCHANGED netErrs

\* setTimeout(() => { hls.startLoad(); }, 1000 * retryCount)
HlsStartLoad(e) ==
    /\ vp.engines[e].kind = "hls"
    /\ vp.engines[e].stalled = "backoff"
    /\ Finish([Begin EXCEPT !.engines[e].stalled = "no"])
    /\ UNCHANGED netErrs

\* hls.on(Hls.Events.MANIFEST_PARSED, ...) of engine e
HlsManifestParsed(e) ==
    LET eng == vp.engines[e]
        v1  == ClearLoadTimeout(Begin)
    IN  /\ eng.kind = "hls"
        /\ eng.gen # "old"
        /\ vp.mounted
        /\ eng.stalled = "no"
        /\ ~eng.parsed
        /\ Finish([v1 EXCEPT !.engines[e].parsed = TRUE,
                             !.engines[e].recovered = TRUE,
                             !.playerState = [@ EXCEPT !.isLoading = FALSE,
                                              !.error = "none", !.qualities = "hls",
                                              !.audio = "hls", !.currentQuality = -1,
                                              !.currentAudioTrack = 0]])
        /\ UNCHANGED netErrs

\* initShakaPlayer after "await player.load(url)"; ok: load resolved.
\* load() of a destroyed player is rejected (the load was interrupted)
ShakaLoadSettled(p, ok) ==
    LET r == vp.pending[p]
        b == [Begin EXCEPT !.pending[p] = NoPending]
        c == ClearLoadTimeout(b)
    IN  /\ r.kind = "load"
        /\ ok => r.eng # 0
        /\ IF ok
           THEN /\ Finish([c EXCEPT !.engines[r.eng].parsed = TRUE,
                                    !.playerState = IF c.mounted
                                        THEN [@ EXCEPT !.isLoading = FALSE,
                                              !.error = "none", !.qualities = "shaka",
                                              !.subtitles = "shaka", !.audio = "shaka",
                                              !.currentQuality = -1,
                                              !.currentAudioTrack = 0]
                                        ELSE @])
                /\ netErrs' = IF r.eng = vp.shakaPlayerRef THEN 0 ELSE netErrs
           ELSE /\ Finish(InitFailure(b, r.idx))
                /\ UNCHANGED netErrs

\* player.addEventListener('error', onErrorHandler) of engine e;
\* class "network": 6000 <= event.detail.code < 7000
ShakaError(e, class) ==
    LET eng == vp.engines[e]
        v1  == SetError(ClearLoadTimeout(Begin),
                        IF class = "network" THEN "shakaNetwork" ELSE "shaka")
        t   == [stage |-> "handleRetry", idx |-> eng.idx, gen |-> eng.gen]
        act == e = vp.shakaPlayerRef
    IN  /\ eng.kind = "shaka"
        /\ IF class = "network"
           THEN /\ t \notin vp.retryTimers
                /\ act => netErrs < MaxNetErrs
                /\ netErrs' = IF act THEN netErrs + 1 ELSE netErrs
                /\ Finish(destroyPlayer([v1 EXCEPT !.retryTimers = @ \cup {t}], TRUE))
           ELSE /\ Finish(destroyPlayer(CallOnError(v1, eng.idx), TRUE))
                /\ UNCHANGED netErrs

\* the once-listeners of type ev, in the order they were added
ListenersOf(v, ev) == SelectSeq(v.listeners, LAMBDA l : l.ev = ev)

\* the video element fires loadedmetadata: every listener added by
\* initNativePlayer and not yet fired runs (onLoadedMetadata)
NativeLoadedMetadata ==
    LET ls == ListenersOf(vp, "loadedmetadata")
        v  == [ClearLoadTimeout(Begin) EXCEPT
                  !.listeners   = SelectSeq(@, LAMBDA l : l.ev # "loadedmetadata"),
                  !.playerState = [@ EXCEPT !.isLoading = FALSE, !.error = "none",
                                            !.audio = "default"]]
    IN  /\ ls # <<>>
        /\ vp.mounted
        /\ vp.videoSrc \in {"url", "mse"}
        /\ Finish(v)
        /\ UNCHANGED netErrs

RECURSIVE NativeErrors(_, _)
NativeErrors(v, ls) ==
    IF ls = <<>> THEN v
    ELSE NativeErrors(CallOnError(SetError(ClearLoadTimeout(v), "native"), Head(ls).idx),
                      Tail(ls))

\* the video element fires error (a failed load, or the empty src that
\* destroyPlayer has set): every pending onErrorHandler of initNativePlayer runs
NativeError ==
    LET ls == ListenersOf(vp, "error")
        b  == [Begin EXCEPT !.listeners = SelectSeq(@, LAMBDA l : l.ev # "error"),
                            !.videoSrc  = IF @ = "empty" THEN "none" ELSE @]
    IN  /\ ls # <<>>
        /\ vp.mounted
        /\ vp.videoSrc \in {"url", "mse", "empty"}
        /\ Finish(NativeErrors(b, ls))
        /\ UNCHANGED netErrs

\* a timer of the retry chain fires: setTimeout(() => handleRetry(), 2000)
\* runs handleRetry, whose setTimeout(initializePlayer, 500) runs initializePlayer
RetryTimer(t) ==
    LET b == [Begin EXCEPT !.retryTimers = @ \ {t}]
    IN  /\ t \in vp.retryTimers
        /\ IF t.stage = "handleRetry"
           THEN Finish([b EXCEPT !.retryTimers = @ \cup {[t EXCEPT !.stage = "init"]}])
           ELSE IF t.gen = "old"
           THEN \* videoRef.current is null: the early return of initializePlayer
                Finish(b)
           ELSE /\ InitRoom(b, t.idx)
                /\ Finish(initializePlayer(b, t.idx, t.gen))
        /\ UNCHANGED netErrs

\* the Retry button of the error overlay: onClick={handleRetry}
RetryClick ==
    LET t == [stage |-> "init", idx |-> currentLinkIndex, gen |-> "cur"]
    IN  /\ view = "shown"
        /\ vp.mounted
        /\ vp.playerState.error # "none"
        /\ t \notin vp.retryTimers
        /\ vp.sessions < MaxSessions
        /\ Finish(Charge([Begin EXCEPT !.retryTimers = @ \cup {t}]))
        /\ netErrs' = 0

Next ==
    \/ Mount
    \/ Render
    \/ \E i \in 0..(Len(links) - 1) : ManualSelect(i)
    \/ Unmount
    \/ LoadTimeout
    \/ \E p \in 1..MaxPending, ok \in BOOLEAN : HlsImportSettled(p, ok)
    \/ \E e \in 1..MaxEngines, type \in {"network", "media", "recoverThrows", "other"} :
          HlsError(e, type)
    \/ \E e \in 1..MaxEngines : HlsStartLoad(e)
    \/ \E e \in 1..MaxEngines : HlsManifestParsed(e)
    \/ \E p \in 1..MaxPending, ok \in BOOLEAN : ShakaLoadSettled(p, ok)
    \/ \E e \in 1..MaxEngines, class \in {"network", "other"} : ShakaError(e, class)
    \/ NativeLoadedMetadata
    \/ NativeError
    \/ \E t \in vp.retryTimers : RetryTimer(t)
    \/ RetryClick

Spec == Init /\ [][Next]_vars

\* the captions list of the settings sheet: onClick={() => changeSubtitle(id)};
\* the list is rendered while availableSubtitles is not empty and no error is
\* shown (the viewer is taken to use it once the loading overlay is gone)
SelectSubtitle(id) ==
    /\ vp.mounted
    /\ vp.playerState.error = "none"
    /\ ~vp.playerState.isLoading
    /\ vp.playerState.subtitles # "none"
    /\ vp' = [vp EXCEPT !.playerState.currentSubtitle = id]
    /\ UNCHANGED <<links, browser, view, currentLinkIndex, updateQueue, netErrs, proxy, call, ui>>

\* a page whose candidates are the three stream types, with a viewer who uses
\* the captions list
TrackInit == Init /\ Len(links) = MaxLinks /\ browser = "mse"

TrackNext == Next \/ \E id \in {-1, 0} : SelectSubtitle(id)

TrackSpec == TrackInit /\ [][TrackNext]_vars

(***************************************************************************)
(* The proxy handler: one request, from its arrival to the response        *)
(***************************************************************************)
JsonType     == <<"a", "p", "p", "l", "i", "c", "a", "t", "i", "o", "n", "/", "j", "s", "o", "n">>
PlaylistType == <<"a", "p", "p", "l", "i", "c", "a", "t", "i", "o", "n", "/", "v", "n", "d", ".",
                   "a", "p", "p", "l", "e", ".", "m", "p", "e", "g", "u", "r", "l">>

\* new Response(body, {status, headers: {..., ...getCorsHeaders(origin)}})
Respond(p, status, error, contentType, body) ==
    [p EXCEPT !.phase = "responded",
              !.resp  = [status |-> status, error |-> error, contentType |-> contentType,
                         body |-> body, allowOrigin |-> getCorsHeaders(p.req.origin)]]

ProxyInit ==
    /\ links = <<HlsUrl>>
    /\ browser = "mse"
    /\ view = "init"
    /\ currentLinkIndex = 0
    /\ updateQueue = <<>>
    /\ vp = FreshPlayer
    /\ netErrs = 0
    /\ proxy \in Received
    /\ call = IdleCall
    /\ ui = IdleUi

\* a target check that lets every request through
MissingUrlNever(targetUrl) == FALSE

\* !targetUrl
MissingUrl(targetUrl) == targetUrl = <<>>

\* an upstream request that never carries a Range header
ForwardedRangeNone(rangeHeader) == ""

\* headers['Range'] of the upstream request: if (rangeHeader) headers['Range'] = rangeHeader
ForwardedRange(rangeHeader) == IF rangeHeader # "" THEN rangeHeader ELSE ""

\* a response.ok that every status passes
ResponseOkAlways(status) == TRUE

\* response.ok
ResponseOk(status) == status >= 200 /\ status <= 299

\* handler from its start to "await fetch(targetUrl, ...)"
ProxyHandle ==
    /\ proxy.phase = "received"
    /\ proxy' =
         IF proxy.req.method = "OPTIONS"
         THEN Respond(proxy, 204, "", <<>>, <<>>)
         ELSE IF proxy.req.origin # "" /\ ~OriginAllowed(proxy.req.origin)
         THEN Respond(proxy, 403, "Unauthorized origin", JsonType, <<>>)
         ELSE IF MissingUrl(proxy.req.target)
         THEN Respond(proxy, 400, "Missing url parameter", JsonType, <<>>)
         ELSE [proxy EXCEPT !.phase = "fetching", !.fetches = @ + 1,
                            !.upRange = ForwardedRange(proxy.req.range)]
    /\ UNCHANGED <<links, browser, view, currentLinkIndex, updateQueue, vp, netErrs, call, ui>>

\* fetch resolves with the response u: the rest of the try block; a failing
\* "await response.text()" lands in the catch block, a body passed through is
\* handed over without being read
UpstreamAnswers(u) ==
    /\ proxy.phase = "fetching"
    /\ LET p == [proxy EXCEPT !.upstream = u]
       IN  proxy' =
             IF ~ResponseOk(u.status)
             THEN Respond(p, u.status, "Stream unavailable", JsonType, <<>>)
             ELSE IF IsPlaylist(u.contentType, proxy.req.target)
             THEN IF u.readable
                  THEN Respond(p, 200, "", PlaylistType, RewritePlaylist(u.text, u.url))
                  ELSE Respond(p, 500, "Proxy failed to fetch stream", JsonType, <<>>)
             ELSE Respond(p, u.status, "", u.contentType, u.text)
    /\ UNCHANGED <<links, browser, view, currentLinkIndex, updateQueue, vp, netErrs, call, ui>>

\* fetch rejects (network failure, the 30 s AbortSignal): the catch block
UpstreamFails ==
    /\ proxy.phase = "fetching"
    /\ proxy' = Respond(proxy, 500, "Proxy failed to fetch stream", JsonType, <<>>)
    /\ UNCHANGED <<links, browser, view, currentLinkIndex, updateQueue, vp, netErrs, call, ui>>

ProxyNext ==
    \/ ProxyHandle
    \/ \E u \in UpstreamResponses(proxy.req.target) : UpstreamAnswers(u)
    \/ UpstreamFails

ProxySpec == ProxyInit /\ [][ProxyNext]_vars

(***************************************************************************)
(* The pure helpers: one call, from its input to its result                *)
(***************************************************************************)
HelperInit ==
    /\ links = <<HlsUrl>>
    /\ browser = "mse"
    /\ view = "init"
    /\ currentLinkIndex = 0
    /\ updateQueue = <<>>
    /\ vp = FreshPlayer
    /\ netErrs = 0
    /\ proxy = IdleProxy
    /\ call \in Calls
    /\ ui = IdleUi

\* const { type, cleanUrl, drmInfo } = detectStreamType(streamUrl)
DetectStreamType ==
    /\ call.fn = "detectStreamType"
    /\ ~call.done
    /\ call' = [fn |-> call.fn, url |-> call.url, done |-> TRUE,
                result |-> [type     |-> detectStreamType(call.url),
                            cleanUrl |-> SplitBase(call.url),
                            drmInfo  |-> HasDrmInfo(call.url)]]
    /\ UNCHANGED <<links, browser, view, currentLinkIndex, updateQueue, vp, netErrs, proxy, ui>>

\* const { currentTime, duration, startTime, isLive } = getTimeStats(video)
GetTimeStats ==
    /\ call.fn = "getTimeStats"
    /\ ~call.done
    /\ call' = [fn |-> call.fn, media |-> call.media, done |-> TRUE,
                result |-> getTimeStats(call.media)]
    /\ UNCHANGED <<links, browser, view, currentLinkIndex, updateQueue, vp, netErrs, proxy, ui>>

\* an entry of the settings menu is chosen: onClick={() => changeQuality(id)},
\* changeSubtitle(id), changeAudioTrack(id)
ChangeSelection ==
    /\ call.fn \in {"changeQuality", "changeSubtitle", "changeAudioTrack"}
    /\ ~call.done
    /\ call' = [fn |-> call.fn, media |-> call.media, id |-> call.id, done |-> TRUE,
                result |-> CASE call.fn = "changeQuality"  -> changeQuality(call.media, call.id)
                             [] call.fn = "changeSubtitle" -> changeSubtitle(call.media, call.id)
                             [] OTHER -> changeAudioTrack(call.media, call.id)]
    /\ UNCHANGED <<links, browser, view, currentLinkIndex, updateQueue, vp, netErrs, proxy, ui>>

\* const proxied = getProxiedUrl(streamUrl)
GetProxiedUrl ==
    /\ call.fn = "getProxiedUrl"
    /\ ~call.done
    /\ call' = [fn |-> call.fn, url |-> call.url, done |-> TRUE,
                result |-> getProxiedUrl(call.url)]
    /\ UNCHANGED <<links, browser, view, currentLinkIndex, updateQueue, vp, netErrs, proxy, ui>>

\* getOriginalUrl of the URL that getProxiedUrl has returned for call.url
GetOriginalUrl ==
    /\ call.fn = "getProxiedUrl"
    /\ call.done
    /\ call' = [fn |-> "getOriginalUrl", url |-> call.result, from |-> call.url,
                done |-> TRUE, result |-> getOriginalUrl(call.result)]
    /\ UNCHANGED <<links, browser, view, currentLinkIndex, updateQueue, vp, netErrs, proxy, ui>>

\* const channels = parseM3U(m3uContent, categoryId, categoryName)
ParseM3U ==
    /\ call.fn = "parseM3U"
    /\ ~call.done
    /\ call' = [call EXCEPT !.done = TRUE] @@
                [result |-> parseM3U(call.content, call.categoryId, <<"N">>)]
    /\ UNCHANGED <<links, browser, view, currentLinkIndex, updateQueue, vp, netErrs, proxy, ui>>

HelperNext ==
    \/ DetectStreamType
    \/ GetTimeStats
    \/ ChangeSelection
    \/ GetProxiedUrl
    \/ GetOriginalUrl
    \/ ParseM3U

HelperSpec == HelperInit /\ [][HelperNext]_vars

(***************************************************************************)
(* The progress bar: the stream is ready, the user seeks                   *)
(***************************************************************************)
\* the end of a handler of the progress bar
Apply(u) ==
    /\ ui' = u
    /\ UNCHANGED <<links, browser, view, currentLinkIndex, updateQueue, vp, netErrs, proxy, call>>

\* the stream is ready: the state holds the time line of the element
UiInit ==
    /\ links = <<HlsUrl>>
    /\ browser = "mse"
    /\ view = "init"
    /\ currentLinkIndex = 0
    /\ updateQueue = <<>>
    /\ vp = FreshPlayer
    /\ netErrs = 0
    /\ proxy = IdleProxy
    /\ call = IdleCall
    /\ \E kind \in {"vod", "live"}, paused \in BOOLEAN :
          ui = updateStateWithTime(
                  [IdleUi EXCEPT !.media = kind,
                                 !.video = [paused |-> paused, currentTime |-> 20],
                                 !.playerState.isPlaying = ~paused])

\* togglePlay: video.play() or video.pause(), and the play / pause event
TogglePlay ==
    /\ ui.video.paused \in BOOLEAN       \* const video = videoRef.current; if (!video) return
    /\ Apply([ui EXCEPT !.video.paused = ~@,
                        !.playerState.isPlaying = ui.video.paused,
                        !.playerState.showControls = TRUE])

\* the element fires durationchange: the stream becomes live, or a window
HandleDurationChange(kind) ==
    /\ kind # ui.media
    /\ Apply(updateStateWithTime([ui EXCEPT !.media = kind]))

\* the element fires timeupdate: if (playerState.isSeeking) return
HandleTimeUpdate ==
    /\ ~ui.playerState.isSeeking
    /\ Apply(updateStateWithTime(ui))

\* onClick of the bar at clientX = x
HandleProgressClick(x) ==
    LET newTime == calculateNewTime(ui.playerState, x)
    IN  /\ x \in Int
        /\ Apply([ui EXCEPT !.video.currentTime = IF newTime.kind = "null" THEN @
                                                  ELSE newTime.v,
                            !.playerState.showControls = TRUE])

\* onMouseDown of the thumb; one pointer is on the bar at a time
HandleDragStart ==
    LET s == ui.playerState
    IN  /\ ~ui.dragStartRef /\ ~ui.touchStartRef
        /\ IF ~isFinite(s.duration) \/ s.duration.v <= 0 \/ s.isLive
           THEN Apply(ui)
           ELSE Apply([ui EXCEPT !.wasPlayingBeforeSeekRef = ~ui.video.paused,
                                 !.dragStartRef = TRUE,
                                 !.playerState.isSeeking = TRUE,
                                 !.playerState.showControls = TRUE,
                                 !.playerState.isPlaying = FALSE,
                                 !.video.paused = TRUE,
                                 !.target = IF @ = "none" THEN @ ELSE "earlier"])

\* mousemove on the document while dragging: throttledUpdate(() => ...)
\* replaces the frame requested before; the callback keeps the
\* calculateNewTime of this render
HandleDragMove(x) ==
    /\ ui.dragStartRef
    /\ Apply([ui EXCEPT !.rafRef = [kind |-> "drag", x |-> x,
                                    duration  |-> ui.playerState.duration,
                                    startTime |-> ui.playerState.startTime,
                                    isLive    |-> ui.playerState.isLive]])

\* the browser runs the requested frame: the callback of handleDragMove or
\* of handleTouchMove
AnimationFrame ==
    LET f       == ui.rafRef
        newTime == IF f.kind = "drag" THEN calculateNewTime(f, f.x)
                   ELSE Num(f.startTime.v + (f.x * (f.duration.v - f.startTime.v)) \div MaxHalf)
    IN  /\ f.kind # "none"
        /\ Apply(IF newTime.kind = "null"
                 THEN [ui EXCEPT !.rafRef = NoFrame]
                 ELSE [ui EXCEPT !.rafRef = NoFrame,
                                 !.playerState.currentTime = newTime.v,
                                 !.playerState.showControls = IF f.kind = "drag" THEN TRUE ELSE @,
                                 !.seekTimeRef = newTime.v,
                                 !.target = "current"])

\* mouseup on the document while dragging
HandleDragEnd ==
    LET paused == IF ui.wasPlayingBeforeSeekRef THEN FALSE ELSE ui.video.paused
    IN  /\ ui.dragStartRef
        /\ Apply([ui EXCEPT !.video = [paused |-> paused, currentTime |-> ui.seekTimeRef],
                            !.dragStartRef = FALSE,
                            !.playerState.isSeeking = FALSE,
                            !.playerState.isPlaying = ~paused,
                            !.playerState.showControls = TRUE,
                            !.rafRef = NoFrame])

\* onTouchStart of the thumb; the { x, time } it keeps is never read again
HandleTouchStart ==
    LET s == ui.playerState
    IN  /\ ~ui.dragStartRef /\ ~ui.touchStartRef
        /\ IF ~isFinite(s.duration) \/ s.duration.v <= 0 \/ s.isLive
           THEN Apply(ui)
           ELSE Apply([ui EXCEPT !.wasPlayingBeforeSeekRef = ~ui.video.paused,
                                 !.touchStartRef = TRUE,
                                 !.playerState.isSeeking = TRUE,
                                 !.playerState.showControls = TRUE,
                                 !.playerState.isPlaying = FALSE,
                                 !.video.paused = TRUE,
                                 !.target = IF @ = "none" THEN @ ELSE "earlier"])

\* onTouchMove of the bar during a touch; the callback keeps the duration and
\* the startTime of this render
HandleTouchMove(x) ==
    /\ ui.touchStartRef
    /\ Apply([ui EXCEPT !.rafRef = [kind |-> "touch", x |-> x,
                                    duration  |-> ui.playerState.duration,
                                    startTime |-> ui.playerState.startTime,
                                    isLive    |-> ui.playerState.isLive]])

\* onTouchEnd of the bar, touchend on the document
HandleTouchEnd ==
    LET paused == IF ui.wasPlayingBeforeSeekRef THEN FALSE ELSE ui.video.paused
    IN  /\ ui.touchStartRef
        /\ Apply([ui EXCEPT !.video = [paused |-> paused, currentTime |-> ui.seekTimeRef],
                            !.touchStartRef = FALSE,
                            !.playerState.isSeeking = FALSE,
                            !.playerState.isPlaying = ~paused,
                            !.rafRef = NoFrame])

\* the rewind button. The player of this page is the video element itself
\* (shakaPlayerRef.current is null), so the branch of the Shaka live seek is
\* not taken
SeekBackward ==
    LET back == ui.video.currentTime - 10
        low  == ui.playerState.startTime.v
    IN  /\ ui.video.paused \in BOOLEAN   \* const video = videoRef.current; if (!video) return
        /\ Apply([ui EXCEPT !.video.currentTime = IF low > back THEN low ELSE back,
                            !.playerState.showControls = TRUE])

\* the forward button: Math.min(playerState.duration, video.currentTime + 10)
SeekForward ==
    LET ahead == ui.video.currentTime + 10
        high  == ui.playerState.duration.v
    IN  /\ ui.video.paused \in BOOLEAN
        /\ Apply([ui EXCEPT !.video.currentTime = IF high < ahead THEN high ELSE ahead,
                            !.playerState.showControls = TRUE])

UiNext ==
    \/ TogglePlay
    \/ \E kind \in {"vod", "live"} : HandleDurationChange(kind)
    \/ HandleTimeUpdate
    \/ \E x \in -1..(MaxHalf + 1) : HandleProgressClick(x)
    \/ HandleDragStart
    \/ \E x \in 0..MaxHalf : HandleDragMove(x)
    \/ AnimationFrame
    \/ HandleDragEnd
    \/ HandleTouchStart
    \/ \E x \in 0..MaxHalf : HandleTouchMove(x)
    \/ HandleTouchEnd
    \/ SeekBackward
    \/ SeekForward

UiSpec == UiInit /\ [][UiNext]_vars

(***************************************************************************)
(* Properties of the playback session and of the failover orchestrator     *)
(***************************************************************************)
\* a handler of the current session reports a failure it does not retry:
\* the load timer, a throw inside init*, a fatal engine error, a media error
\* of the video element
InitThrew ==
    /\ Mount \/ (\E t \in vp.retryTimers : t.gen = "cur" /\ t.stage = "init" /\ RetryTimer(t))
    /\ vp'.calls # <<>>

FatalFailure ==
    \/ vp.mounted /\ vp.loadingTimeout.gen = "cur" /\ LoadTimeout
    \/ InitThrew
    \/ \E p \in 1..MaxPending :
          /\ vp.pending[p].gen = "cur"
          /\ HlsImportSettled(p, FALSE) \/ (browser = "none" /\ HlsImportSettled(p, TRUE))
    \/ \E p \in 1..MaxPending :
          /\ vp.pending[p].gen = "cur"
          /\ vp.pending[p].eng # 0
          /\ vp.pending[p].eng = vp.shakaPlayerRef
          /\ ShakaLoadSettled(p, FALSE)
    \/ \E e \in 1..MaxEngines :
          /\ e = vp.hlsRef
          /\ vp.engines[e].gen = "cur"
          /\ \/ HlsError(e, "other")
             \/ vp.engines[e].retryCount = maxRetries /\ HlsError(e, "network")
    \/ \E e \in 1..MaxEngines :
          e = vp.shakaPlayerRef /\ vp.engines[e].gen = "cur" /\ ShakaError(e, "other")
    \/ (\A i \in 1..Len(vp.listeners) : vp.listeners[i].gen = "cur") /\ NativeError

\* C1: every fatal failure invokes onError exactly once and leaves no engine
\* live, whichever backend the session uses.
C1_OneErrorAndNoEngine ==
    [][FatalFailure => (Len(vp'.calls) = 1 /\ LiveEngines(vp') = {})]_vars

\* a backend reports that the load succeeded
SuccessEvent ==
    \/ \E e \in 1..MaxEngines : HlsManifestParsed(e)
    \/ \E p \in 1..MaxPending : ShakaLoadSettled(p, TRUE)
    \/ NativeLoadedMetadata

\* C2: once the load timeout has fired, a success event of the backend that
\* arrives later changes nothing: the session stays failed with the timeout.
C2_TimeoutWins ==
    [][(vp.playerState.error = "timeout" /\ SuccessEvent)
          => (vp'.playerState = vp.playerState /\ vp'.calls = <<>>)]_vars

\* C3: at most one engine is live at any time: the previous engine is
\* destroyed before the next one is constructed, whatever the interleaving
\* with the awaited import of hls.js and the awaited load of Shaka.
C3_AtMostOneEngine == Cardinality(LiveEngines(vp)) <= 1

\* C4: a network-class error of the active backend is retried while it is one
\* of the first maxRetries of the source; the next one calls onError exactly
\* once, destroys the engine that reported it and schedules no further retry.
NetworkErrorHandled(e, count) ==
    IF count <= maxRetries
    THEN vp'.calls = <<>>
    ELSE /\ Len(vp'.calls) = 1
         /\ vp'.engines[e].kind = "none"
         /\ vp'.retryTimers \subseteq vp.retryTimers

C4_RetryBudget ==
    [][/\ \A e \in 1..MaxEngines :
            (e = vp.hlsRef /\ vp.engines[e].gen = "cur" /\ HlsError(e, "network"))
               => NetworkErrorHandled(e, vp.engines[e].retryCount + 1)
       /\ \A e \in 1..MaxEngines :
            (e = vp.shakaPlayerRef /\ vp.engines[e].gen = "cur" /\ ShakaError(e, "network"))
               => NetworkErrorHandled(e, netErrs + 1)]_vars

\* a continuation, engine event or timer created by a session that has been
\* destroyed since (unmount or source replacement) runs
DestroyedSessionRuns ==
    \/ \E p \in 1..MaxPending, ok \in BOOLEAN :
          /\ vp.pending[p].gen # "cur"
          /\ HlsImportSettled(p, ok) \/ ShakaLoadSettled(p, ok)
    \/ \E e \in 1..MaxEngines :
          /\ vp.engines[e].gen # "cur"
          /\ \/ \E type \in {"network", "media", "other"} : HlsError(e, type)
             \/ HlsManifestParsed(e)
             \/ \E class \in {"network", "other"} : ShakaError(e, class)
    \/ \E t \in vp.retryTimers : t.gen # "cur" /\ RetryTimer(t)

\* C5: what a destroyed session left pending has no effect when it runs: it
\* creates no engine, changes no player state and calls onError not at all.
C5_DestroyedSessionIsInert ==
    [][DestroyedSessionRuns
          => /\ LiveEngines(vp') \subseteq LiveEngines(vp)
             /\ vp'.playerState = vp.playerState
             /\ vp'.loadingTimeout = vp.loadingTimeout
             /\ vp'.calls = <<>>]_vars

\* C6: teardown is idempotent: in every reachable state, a second
\* destroyPlayer right after a first one changes nothing of the instance, its
\* player state and onError calls included.
C6_DestroyIdempotent ==
    \A hasVideo \in BOOLEAN :
        LET once == destroyPlayer(vp, hasVideo)
        IN  destroyPlayer(once, hasVideo) = once

\* a mounted instance that a teardown has left with nothing to release, while
\* engines that no ref holds are still live and its player state is an error
C6_TornDownTwice ==
    /\ vp.mounted
    /\ vp.playerState.error = "timeout"
    /\ vp.videoSrc = "empty"
    /\ vp.hlsRef = 0 /\ vp.shakaPlayerRef = 0
    /\ ~vp.loadingTimeout.armed
    /\ LiveEngines(vp) # {}
    /\ destroyPlayer(vp, TRUE) = vp

\* C7: a fatal failure moves the cursor by exactly one step: the render it
\* schedules commits i + 1, or 0 after the last candidate.
C7_OneStepPerFailure ==
    [][(view = "shown" /\ updateQueue = <<>> /\ FatalFailure)
          => ApplyQueue(updateQueue', currentLinkIndex) = (currentLinkIndex + 1) % Len(links)]_vars

\* the instance has just started a load of candidate j
FreshSession(v, j) ==
    /\ v.mounted
    /\ v.playerState.isLoading
    /\ v.playerState.error = "none"
    /\ v.loadingTimeout = [armed |-> TRUE, idx |-> j, gen |-> "cur"]

\* C8: a fatal failure is always followed by a fresh session on the candidate
\* at the new cursor: the failure schedules a render, and the render starts a
\* load, also when the cursor wraps to the same index or the next URL is the same.
C8_FreshSessionAfterFailure ==
    [][/\ (view = "shown" /\ FatalFailure) => updateQueue' # <<>>
       /\ (Render /\ currentLinkIndex' < Len(links))
             => FreshSession(vp', currentLinkIndex')]_vars

(***************************************************************************)
(* Properties of the manifest proxy                                        *)
(***************************************************************************)
\* the proxy has answered a playlist response with the rewritten body
PlaylistRewritten ==
    /\ proxy.phase = "responded"
    /\ proxy.upstream.status = 200
    /\ proxy.upstream.readable
    /\ IsPlaylist(proxy.upstream.contentType, proxy.req.target)

InputLines  == Split(proxy.upstream.text)
OutputLines == Split(proxy.resp.body)

\* the 4-tier rule: absolute http(s) URL, //host/..., /path, relative
FourTier(ref, responseUrl) ==
    LET base == ParseUrl(responseUrl)
    IN  IF StartsWith(ref, <<"h", "t", "t", "p", ":", "/", "/">>) \/ StartsWith(ref, <<"h", "t", "t", "p", "s", ":", "/", "/">>)
        THEN ref
        ELSE IF StartsWith(ref, <<"/", "/">>)
        THEN base.protocol \o ref
        ELSE IF StartsWith(ref, <<"/">>)
        THEN base.protocol \o <<"/", "/">> \o base.host \o ref
        ELSE base.protocol \o <<"/", "/">> \o base.host \o BasePath(base) \o ref

\* out is the proxy's own URL with a url parameter that decodes to target
ProxiedTo(out, target) ==
    LET prefix == ProxyOrigin \o ProxyPathname \o UrlParam
    IN  /\ StartsWith(out, prefix)
        /\ decodeURIComponent(SubSeq(out, Len(prefix) + 1, Len(out))) = target

\* C9 as stated: every line that is not blank and not a tag is replaced, at
\* the same index, by a proxied URL whose decoded url parameter is the line,
\* as it stands in the body, resolved against the final response URL by the
\* 4-tier rule.
C9_LineResolved ==
    PlaylistRewritten =>
        \A i \in 1..Len(InputLines) :
            (Trim(InputLines[i]) # <<>> /\ ~StartsWith(Trim(InputLines[i]), <<"#">>))
               => /\ i <= Len(OutputLines)
                  /\ ProxiedTo(OutputLines[i], FourTier(InputLines[i], proxy.upstream.url))

\* C9 amended: blank, tag and reference are judged on the line without the
\* white space around it (the carriage return of a CRLF ending included), and
\* it is that trimmed line the url parameter resolves.
C9_TrimmedLineResolved ==
    PlaylistRewritten =>
        \A i \in 1..Len(InputLines) :
            (Trim(InputLines[i]) # <<>> /\ ~StartsWith(Trim(InputLines[i]), <<"#">>))
               => /\ i <= Len(OutputLines)
                  /\ ProxiedTo(OutputLines[i],
                               FourTier(Trim(InputLines[i]), proxy.upstream.url))

\* a playlist with a relative reference after a reference that ends in a
\* carriage return has been rewritten, the response URL being a redirect
C9_PaddedReferenceRewritten ==
    /\ PlaylistRewritten
    /\ proxy.upstream.url = RedirectUrl
    /\ Len(InputLines) = MaxLines
    /\ InputLines[1] = <<"/", "/", "c", "/", "s", ".", "t", "s", "\r">>
    /\ InputLines[Len(InputLines)] = <<"s", ".", "t", "s">>

\* C10: the rewritten playlist has as many lines as the body, and every blank
\* line and every tag or comment line without a URI attribute is, character
\* for character, the line of the body at the same index.
C10_OtherLinesUntouched ==
    PlaylistRewritten =>
        /\ Len(OutputLines) = Len(InputLines)
        /\ \A i \in 1..Len(InputLines) :
              (\/ Trim(InputLines[i]) = <<>>
               \/ StartsWith(InputLines[i], <<"#">>) /\ ~Includes(InputLines[i], UriAttribute))
                 => OutputLines[i] = InputLines[i]

(***************************************************************************)
(* Properties of the manifest proxy: tags, headers, status codes           *)
(***************************************************************************)
EndsWith(s, p) ==
    /\ Len(p) <= Len(s)
    /\ SubSeq(s, Len(s) - Len(p) + 1, Len(s)) = p

\* C11: every line that starts with '#' and holds one quoted URI="..."
\* attribute comes out, at the same index, with the same characters before
\* the value and the same characters after it, and with the value replaced by
\* the proxied form of the value resolved by the 4-tier rule.
C11_OnlyUriValueRewritten ==
    PlaylistRewritten =>
        \A i \in 1..Len(InputLines) :
            LET line  == InputLines[i]
                a     == IndexOf(line, UriAttribute)
                head  == SubSeq(line, 1, a + Len(UriAttribute) - 1)
                after == SubSeq(line, a + Len(UriAttribute), Len(line))
                q     == IndexOf(after, <<"\"">>)
                value == SubSeq(after, 1, q - 1)
                rest  == SubSeq(after, q, Len(after))
            IN  (StartsWith(line, <<"#">>) /\ a # 0 /\ q > 1 /\ ~Includes(rest, UriAttribute))
                    => /\ i <= Len(OutputLines)
                       /\ Len(OutputLines[i]) >= Len(head) + Len(rest)
                       /\ StartsWith(OutputLines[i], head)
                       /\ EndsWith(OutputLines[i], rest)
                       /\ ProxiedTo(SubSeq(OutputLines[i], Len(head) + 1,
                                           Len(OutputLines[i]) - Len(rest)),
                                    FourTier(value, proxy.upstream.url))

\* origin is an entry of the allow-list the handler runs with
InAllowList(origin) ==
    \E i \in 1..Len(proxy.allowedOrigins) : proxy.allowedOrigins[i] = origin

\* C12: every response of the handler carries the CORS headers, and its
\* Access-Control-Allow-Origin is an entry of the allow-list: the Origin of
\* the request when that is allow-listed, the first entry otherwise.
C12_CorsOnEveryResponse ==
    proxy.phase = "responded" =>
        /\ proxy.resp.allowOrigin # ""
        /\ InAllowList(proxy.resp.allowOrigin)
        /\ proxy.resp.allowOrigin =
              IF InAllowList(proxy.req.origin) THEN proxy.req.origin
              ELSE proxy.allowedOrigins[1]

\* a failed fetch answered 500 to an allow-listed origin that is not the first
\* entry of the list
C12_SecondEntryEchoed ==
    /\ proxy.phase = "responded"
    /\ proxy.allowedOrigins = EnvOrigins
    /\ proxy.req.origin = "https://imshep.vercel.app"
    /\ proxy.resp.status = 500
    /\ proxy.resp.allowOrigin = "https://imshep.vercel.app"

\* C13: a request other than OPTIONS with an Origin outside the allow-list is
\* answered 403 and is never fetched, whatever its url parameter; an OPTIONS
\* request is answered 204 and is never fetched, whatever its Origin; a
\* request without Origin is not answered 403.
C13_OriginGate ==
    LET foreign == proxy.req.origin # "" /\ ~InAllowList(proxy.req.origin)
    IN  /\ (proxy.req.method = "OPTIONS" \/ foreign)
              => proxy.fetches = 0 /\ proxy.phase # "fetching"
        /\ proxy.phase = "responded" =>
              /\ proxy.req.method = "OPTIONS" => proxy.resp.status = 204
              /\ (proxy.req.method # "OPTIONS" /\ foreign) => proxy.resp.status = 403
              /\ (proxy.req.method # "OPTIONS" /\ proxy.req.origin = "")
                    => proxy.resp.status # 403

\* a GET of a playlist from a foreign origin was answered 403
C13_ForeignOriginRejected ==
    /\ proxy.phase = "responded"
    /\ proxy.req.method = "GET"
    /\ proxy.req.origin = "https://other.example"
    /\ proxy.req.target = PlaylistUrl
    /\ proxy.resp.status = 403
    /\ proxy.fetches = 0

\* C14: a request that gets past the origin check without a url parameter is
\* answered 400 with the error "Missing url parameter" and is never fetched.
C14_MissingUrlRejected ==
    (/\ proxy.req.method = "GET"
     /\ proxy.req.origin = "" \/ InAllowList(proxy.req.origin)
     /\ proxy.req.target = <<>>)
        => /\ proxy.fetches = 0
           /\ proxy.phase # "fetching"
           /\ proxy.phase = "responded" =>
                 /\ proxy.resp.status = 400
                 /\ proxy.resp.error = "Missing url parameter"
                 /\ proxy.resp.contentType = JsonType

\* a GET without url parameter and without Origin was answered 400
C14_AnsweredBadRequest ==
    /\ proxy.phase = "responded"
    /\ proxy.req.method = "GET"
    /\ proxy.req.origin = ""
    /\ proxy.req.target = <<>>
    /\ proxy.resp.status = 400

\* the request got past the pre-flight, origin and target checks
ReachesUpstream ==
    /\ proxy.req.method = "GET"
    /\ proxy.req.origin = "" \/ InAllowList(proxy.req.origin)
    /\ proxy.req.target # <<>>

\* C15: a request that reaches the upstream is fetched once and never again;
\* an upstream status outside 200..299 is answered with that status and an
\* error payload; a fetch that throws, and a playlist whose body cannot be
\* read, are answered 500 with an error payload.
C15_OneFetchMirroredOrFailed ==
    /\ proxy.fetches <= 1
    /\ (ReachesUpstream /\ proxy.phase \in {"fetching", "responded"}) => proxy.fetches = 1
    /\ (ReachesUpstream /\ proxy.phase = "responded") =>
          /\ (proxy.upstream.status # 0
                /\ ~(proxy.upstream.status >= 200 /\ proxy.upstream.status <= 299))
                => /\ proxy.resp.status = proxy.upstream.status
                   /\ proxy.resp.error # ""
                   /\ proxy.resp.contentType = JsonType
          /\ (\/ proxy.upstream.status = 0
              \/ /\ ~proxy.upstream.readable
                 /\ IsPlaylist(proxy.upstream.contentType, proxy.req.target))
                => /\ proxy.resp.status = 500
                   /\ proxy.resp.error # ""
                   /\ proxy.resp.contentType = JsonType

\* an upstream 503 was answered 503 after one fetch
C15_UpstreamErrorMirrored ==
    /\ proxy.phase = "responded"
    /\ proxy.fetches = 1
    /\ proxy.upstream.status = 503
    /\ proxy.resp.status = 503
    /\ proxy.resp.error # ""

\* C16: the upstream request carries a Range header exactly when the inbound
\* request carries one, and with the same value.
C16_RangeForwarded ==
    /\ proxy.fetches = 0 => proxy.upRange = ""
    /\ proxy.fetches > 0 => proxy.upRange = proxy.req.range

\* a ranged request of a segment was fetched with the same range
C16_RangedSegmentFetched ==
    /\ proxy.phase = "responded"
    /\ proxy.req.target = SegmentUrl
    /\ proxy.req.range = "bytes=0-99"
    /\ proxy.upRange = "bytes=0-99"
    /\ proxy.upstream.status = 206

\* the content-type holds an HLS MIME marker
HlsMimeMarker(contentType) ==
    \/ Includes(contentType, <<"m", "p", "e", "g", "u", "r", "l">>)
    \/ Includes(contentType, <<"m", "3", "u">>)

\* the URL ends in a playlist extension
EndsInPlaylistExtension(targetUrl) ==
    \/ EndsWith(toLowerCase(targetUrl), <<".", "m", "3", "u", "8">>)
    \/ EndsWith(toLowerCase(targetUrl), <<".", "m", "3", "u">>)

\* C17: a successful upstream response is rewritten as a playlist exactly
\* when its content-type holds an HLS MIME marker or the target URL ends in a
\* playlist extension; every other response is passed through with its
\* status, content-type and body.
C17_PlaylistClassification ==
    (/\ proxy.phase = "responded"
     /\ proxy.fetches = 1
     /\ proxy.upstream.status >= 200 /\ proxy.upstream.status <= 299
     /\ proxy.upstream.readable)
        => IF HlsMimeMarker(proxy.upstream.contentType)
                \/ EndsInPlaylistExtension(proxy.req.target)
           THEN /\ proxy.resp.status = 200
                /\ proxy.resp.contentType = PlaylistType
                /\ proxy.resp.body = RewritePlaylist(proxy.upstream.text, proxy.upstream.url)
           ELSE /\ proxy.resp.status = proxy.upstream.status
                /\ proxy.resp.contentType = proxy.upstream.contentType
                /\ proxy.resp.body = proxy.upstream.text

(***************************************************************************)
(* Properties of the stream classifier and of the timeline                 *)
(***************************************************************************)
\* everything before the first delimiter, and everything after it
Playable(url) ==
    LET i == IndexOf(url, DrmDelimiter)
    IN  IF i = 0 THEN url ELSE SubSeq(url, 1, i - 1)

DrmBlock(url) ==
    LET i == IndexOf(url, DrmDelimiter)
    IN  IF i = 0 THEN <<>> ELSE SubSeq(url, i + Len(DrmDelimiter), Len(url))

\* the family given by the first marker found in the lower-cased playable
\* part: "none" when it holds no HLS, DASH or progressive marker
MarkerFamily(url) ==
    LET playable == toLowerCase(Playable(url))
    IN  IF Includes(playable, <<".", "m", "3", "u", "8">>)
           \/ Includes(playable, <<"/", "h", "l", "s", "/">>)
           \/ Includes(playable, <<"h", "l", "s">>)
           \/ Includes(playable, <<"/", "a", "p", "i", "/", "m", "3", "u", "8", "-", "p", "r", "o", "x", "y">>)
        THEN "hls"
        ELSE IF Includes(playable, <<".", "m", "p", "d">>)
                \/ Includes(playable, <<"/", "d", "a", "s", "h", "/">>)
                \/ Includes(playable, <<"d", "a", "s", "h">>)
        THEN "dash"
        ELSE IF Includes(playable, <<".", "m", "p", "4">>)
                \/ Includes(playable, <<".", "w", "e", "b", "m">>)
                \/ Includes(playable, <<".", "m", "o", "v">>)
        THEN "native"
        ELSE "none"

\* C18: the classifier gives the family of the first marker of the playable
\* URL, in the order HLS markers, DASH markers, progressive markers; without
\* such a marker, 'manifest' or a DRM block gives DASH and anything else HLS.
C18_ClassifierPrecedence ==
    (call.fn = "detectStreamType" /\ call.done) =>
        call.result.type =
            IF MarkerFamily(call.url) # "none" THEN MarkerFamily(call.url)
            ELSE IF Includes(toLowerCase(Playable(call.url)), <<"m", "a", "n", "i", "f", "e", "s", "t">>)
                    \/ DrmBlock(call.url) # <<>>
            THEN "dash"
            ELSE "hls"

\* C19: for a raw URL holding the delimiter, cleanUrl is everything before
\* it, and a DRM block after a playable part without HLS, DASH or progressive
\* marker makes the source DASH, whatever the block holds.
C19_DrmBlockMeansDash ==
    (call.fn = "detectStreamType" /\ call.done /\ Includes(call.url, DrmDelimiter)) =>
        /\ call.result.cleanUrl = Playable(call.url)
        /\ (MarkerFamily(call.url) = "none" /\ DrmBlock(call.url) # <<>>)
              => call.result.type = "dash"

\* C20: a finite end greater than 0 of the adapter's seek range, or failing
\* that of the last native seekable range, is the duration of the timeline
\* and makes it not live, whatever the raw duration; the native range counts
\* whenever the adapter gives no range or a range without such an end.
C20_SeekRangeEndWins ==
    (call.fn = "getTimeStats" /\ call.done /\ call.media.hasVideo) =>
        LET m         == call.media
            adapter   == /\ m.playerTypeRef = "shaka"
                         /\ m.shakaPlayerRef
                         /\ m.seekRange.outcome = "range"
                         /\ m.seekRange.end.kind = "num"
                         /\ m.seekRange.end.v > 0
            last      == m.seekable[Len(m.seekable)]
            nativeEnd == /\ Len(m.seekable) > 0
                         /\ last.end.kind = "num"
                         /\ last.end.v > 0
        IN  /\ adapter => /\ call.result.isLive = FALSE
                          /\ call.result.duration = m.seekRange.end
            /\ (~adapter /\ nativeEnd) => /\ call.result.isLive = FALSE
                                          /\ call.result.duration = last.end

\* C21: a timeline that is not live has duration >= start >= 0, whatever the
\* raw duration, the adapter's seek range and the native seekable ranges are.
C21_TimelineOrdered ==
    (call.fn = "getTimeStats" /\ call.done /\ ~call.result.isLive) =>
        /\ call.result.startTime.kind = "num"
        /\ call.result.duration.kind = "num"
        /\ call.result.startTime.v >= 0
        /\ call.result.duration.v >= call.result.startTime.v

\* C31: when neither the adapter's seek range nor the last native seekable
\* range has a finite end greater than 0, the timeline is live and its
\* duration is the raw duration of the element, finite or not.
C31_FallbackIsLive ==
    (call.fn = "getTimeStats" /\ call.done /\ call.media.hasVideo) =>
        LET m         == call.media
            adapter   == /\ m.playerTypeRef = "shaka"
                         /\ m.shakaPlayerRef
                         /\ m.seekRange.outcome = "range"
                         /\ m.seekRange.end.kind = "num"
                         /\ m.seekRange.end.v > 0
            last      == m.seekable[Len(m.seekable)]
            nativeEnd == /\ Len(m.seekable) > 0
                         /\ last.end.kind = "num"
                         /\ last.end.v > 0
        IN  (~adapter /\ ~nativeEnd) => /\ call.result.isLive
                                        /\ call.result.duration = m.duration

\* C22: choosing a quality, an audio track or a subtitle changes the chosen
\* selection field, shows the controls and closes the settings; the start,
\* duration, isLive, currentTime, error and loading fields and the other two
\* selections keep their values, also for an id that matches no track.
C22_SelectionFrame ==
    (call.fn \in {"changeQuality", "changeSubtitle", "changeAudioTrack"} /\ call.done) =>
        LET s == call.media.state
            r == call.result.state
        IN  /\ r.startTime = s.startTime /\ r.duration = s.duration
            /\ r.isLive = s.isLive /\ r.currentTime = s.currentTime
            /\ r.error = s.error /\ r.isLoading = s.isLoading
            /\ r.currentQuality =
                  IF call.fn = "changeQuality" THEN call.id ELSE s.currentQuality
            /\ r.currentSubtitle =
                  IF call.fn = "changeSubtitle" THEN call.id ELSE s.currentSubtitle
            /\ r.currentAudioTrack =
                  IF call.fn = "changeAudioTrack" THEN call.id ELSE s.currentAudioTrack
            /\ r.showControls /\ ~r.showSettings

\* a quality id that no variant track has was chosen on a Shaka engine while
\* the stream was loading
C22_UnknownQualityChosen ==
    /\ call.fn = "changeQuality" /\ call.done
    /\ call.media.playerTypeRef = "shaka" /\ call.media.engine
    /\ call.id \notin call.media.tracks /\ call.id # -1
    /\ call.media.state.isLoading
    /\ call.result.state.currentQuality = call.id
    /\ call.result.engine = "abrOff"

\* C23: while the time line is live, or its duration is not finite or not
\* positive, no interaction with the progress bar (click, drag start, move
\* and end, touch start, move and end) moves the playback position, pauses
\* the playback or sets the seeking flag, also when the time line became
\* live after the drag had started.
C23_NoSeekOnLiveTimeline ==
    [][LET s == ui.playerState
           Interaction ==
               \/ \E x \in -1..(MaxHalf + 1) : HandleProgressClick(x)
               \/ HandleDragStart \/ HandleDragEnd
               \/ HandleTouchStart \/ HandleTouchEnd
               \/ \E x \in 0..MaxHalf : HandleDragMove(x) \/ HandleTouchMove(x)
       IN  ((s.isLive \/ ~isFinite(s.duration) \/ s.duration.v <= 0) /\ Interaction)
              => /\ ui'.video.currentTime = ui.video.currentTime
                 /\ ui'.video.paused => ui.video.paused
                 /\ ui'.playerState.isSeeking => s.isSeeking]_vars

\* C24: the start of a drag or touch records whether the playback was
\* running and pauses it; no move changes the position of the element; the
\* end sets the position to the target the moves of this interaction have
\* computed, never to a target left by an earlier interaction, and resumes
\* the playback exactly when it was running at the start.
C24_SeekCommitsOwnTarget ==
    [][/\ ((HandleDragStart \/ HandleTouchStart) /\ ui'.playerState.isSeeking)
             => /\ ui'.wasPlayingBeforeSeekRef = ~ui.video.paused
                /\ ui'.video.paused
                /\ ui'.video.currentTime = ui.video.currentTime
       /\ (AnimationFrame \/ \E x \in 0..MaxHalf : HandleDragMove(x) \/ HandleTouchMove(x))
             => ui'.video = ui.video
       /\ (HandleDragEnd \/ HandleTouchEnd)
             => /\ ui.target # "earlier"
                /\ ui.target = "current" => ui'.video.currentTime = ui.seekTimeRef
                /\ ui'.video.paused = IF ui.wasPlayingBeforeSeekRef THEN FALSE
                                      ELSE ui.video.paused]_vars

\* C26: the cursor is an index of the candidate list in every reachable
\* state, 0 <= currentLinkIndex < N, also after several onError calls for
\* one failure and after calls made by a session that has been replaced.
C26_CursorInRange ==
    /\ currentLinkIndex >= 0
    /\ currentLinkIndex < Len(links)

\* C27: every load attempt terminates: a session that is loading becomes
\* ready or fatal, because the load deadline stays armed for as long as it is
\* loading, also across recoverable network and media errors.
C27_LoadTerminates ==
    (vp.mounted /\ vp.playerState.isLoading /\ vp.playerState.error = "none")
        ~> (~vp.mounted \/ ~vp.playerState.isLoading \/ vp.playerState.error # "none")

\* C28: the retry budget counts consecutive errors only: a network error of a
\* session that has loaded successfully since its last error is the first of
\* a new run, and it is retried.
C28_BudgetOfConsecutiveErrors ==
    [][\A e \in 1..MaxEngines :
          (/\ e = vp.hlsRef
           /\ vp.engines[e].gen = "cur"
           /\ vp.engines[e].recovered
           /\ HlsError(e, "network"))
             => /\ vp'.engines[e].stalled = "backoff"
                /\ vp'.calls = <<>>
                /\ vp'.playerState = vp.playerState]_vars

\* C29: a media error is recovered in place: the engine stays, the network
\* retry counter keeps its value and onError is not called; when the recovery
\* call throws, the session is fatal: the engine is destroyed, the error is
\* shown and onError is called once.
C29_MediaRecoveryInPlace ==
    [][\A e \in 1..MaxEngines :
          (e = vp.hlsRef /\ vp.engines[e].gen = "cur") =>
             /\ HlsError(e, "media")
                   => /\ vp'.engines[e].kind = "hls"
                      /\ vp'.engines[e].retryCount = vp.engines[e].retryCount
                      /\ vp'.hlsRef = e
                      /\ vp'.calls = <<>>
             /\ HlsError(e, "recoverThrows")
                   => /\ vp'.engines[e].kind = "none"
                      /\ vp'.playerState.error # "none"
                      /\ Len(vp'.calls) = 1]_vars

\* C30: a session initialised with no source URL is fatal at once: no engine
\* is created, no load timer armed, no retry scheduled, and onError is called.
C30_NoUrlIsSurfaced ==
    [][LET \* a session starts on the candidate the cursor points at afterwards
           SessionStarts ==
               \/ Mount
               \/ /\ currentLinkIndex' # currentLinkIndex
                  /\ view' = "shown"
                  /\ Render \/ \E i \in 0..(Len(links) - 1) : ManualSelect(i)
       IN (SessionStarts /\ links[currentLinkIndex' + 1] = <<>>)
          => /\ vp'.playerState.error = "nourl"
             /\ ~vp'.playerState.isLoading
             /\ LiveEngines(vp') = {}
             /\ ~vp'.loadingTimeout.armed
             /\ vp'.retryTimers = {}
             /\ Len(vp'.calls) = 1]_vars

\* timers fire, queued renders run and awaited promises settle; the backend
\* may stay silent and the user may do nothing
\* C33: a target computed from a pointer or touch position is
\* start + f * (duration - start) with f in [0, 1], so the position that a
\* click, a drag or a touch commits lies between the start and the duration
\* of the time line.
C33_CommittedInsideTimeline ==
    [][LET s == ui.playerState
           click == /\ \E x \in -1..(MaxHalf + 1) : HandleProgressClick(x)
                    /\ ui'.video.currentTime # ui.video.currentTime
       IN (click \/ HandleDragEnd \/ HandleTouchEnd)
          => /\ ui'.video.currentTime >= s.startTime.v
             /\ ui'.video.currentTime <= s.duration.v]_vars

\* C34: after a quality is selected the current quality of the session is the
\* chosen id, the backend adapts exactly when the id is -1, and an explicit id
\* pins the available track with that id: the backend is never left with
\* adaptation disabled and no variant pinned.
C34_QualityIsPinnedOrAdaptive ==
    (call.fn = "changeQuality" /\ call.done /\ call.media.engine
        /\ call.media.playerTypeRef \in {"hls", "shaka"}) =>
        /\ call.result.state.currentQuality = call.id
        /\ (call.id = -1) => call.result.engine \in {"abrOn", "currentLevel"}
        /\ (call.id # -1) => call.result.engine \in {"selectVariantTrack", "currentLevel"}
        /\ call.result.engine # "abrOff"

\* C35: the 10-second buttons keep playback inside the time line and move
\* it in the right direction: forward never sets a position below the current
\* one or above the duration, backward never sets a position above the current
\* one or below the start, also when the stored duration is 0.
C35_StepButtonsStayInside ==
    [][/\ SeekForward => /\ ui'.video.currentTime >= ui.video.currentTime
                          /\ ui'.video.currentTime <= ui.playerState.duration.v
       /\ SeekBackward => /\ ui'.video.currentTime <= ui.video.currentTime
                           /\ ui'.video.currentTime >= ui.playerState.startTime.v]_vars

\* C36: for every stream URL u that the client decides to proxy,
\* getOriginalUrl(getProxiedUrl(u)) = u, also when u already holds percent
\* escapes.
C36_ProxyRoundTrip ==
    (call.fn = "getOriginalUrl" /\ call.done /\ call.url # call.from) =>
        call.result = [ok |-> TRUE, url |-> call.from]

\* C37: getProxiedUrl is idempotent and never wraps a proxy URL again:
\* getProxiedUrl(getProxiedUrl(u)) = getProxiedUrl(u) for every u, and a URL
\* that already points at the proxy path is returned unchanged.
C37_ProxyingIsIdempotent ==
    (call.fn = "getProxiedUrl" /\ call.done) =>
        /\ getProxiedUrl(call.result) = call.result
        /\ Includes(call.url, ProxyPathname) => call.result = call.url

\* a stream URL has been wrapped once, and wrapping the result leaves it as it is
C37_WrappedOnce ==
    /\ call.fn = "getProxiedUrl" /\ call.done
    /\ call.result # call.url
    /\ StartsWith(call.result, ProxyPathname \o UrlParam)
    /\ getProxiedUrl(call.result) = call.result

\* C38: in one extraction result the id of the k-th channel (from 0) is the
\* category id, the name with every character that is not a letter or a digit
\* replaced by "_" and lower-cased, and k, joined by underscores; the ids of
\* one result are pairwise distinct; and a stream line produces a channel only
\* if an #EXTINF line stands before it that no earlier stream line has used.
C38_ChannelIds ==
    (call.fn = "parseM3U" /\ call.done) =>
        LET r       == call.result
            raw     == Split(call.content)
            line(i) == Trim(raw[i])
            digits  == <<"0", "1", "2", "3", "4", "5", "6", "7", "8", "9">>
            plain   == {"a", "b", "c", "d", "e", "f", "g", "h", "i", "j", "k", "l", "m",
                        "n", "o", "p", "q", "r", "s", "t", "u", "v", "w", "x", "y", "z",
                        "0", "1", "2", "3", "4", "5", "6", "7", "8", "9"}
            lower(name) == toLowerCase(name)
            clean(name) == [i \in 1..Len(name) |->
                               IF lower(name)[i] \in plain THEN lower(name)[i] ELSE "_"]
            \* the stream lines among the first n lines that follow an #EXTINF
            \* line with nothing but tags and blank lines in between
            served(n) == {i \in 1..n :
                             /\ line(i) # <<>> /\ ~StartsWith(line(i), <<"#">>)
                             /\ \E j \in 1..(i - 1) :
                                   /\ StartsWith(line(j), <<"#", "E", "X", "T", "I", "N", "F", ":">>)
                                   /\ \A m \in (j + 1)..(i - 1) :
                                         line(m) = <<>> \/ StartsWith(line(m), <<"#">>)}
        IN  /\ \A k \in 1..Len(r) :
                  r[k].id = call.categoryId \o <<"_">> \o clean(r[k].name)
                                \o <<"_", digits[k]>>
            /\ \A j, k \in 1..Len(r) : j # k => r[j].id # r[k].id
            /\ \A n \in 1..Len(raw) :
                  Len(parseM3U(Join(SubSeq(raw, 1, n)), call.categoryId, <<"N">>))
                      <= Cardinality(served(n))

\* two channels of one playlist whose names are different and give the same
\* sanitized text: their ids differ in the position only
C38_SameCleanNameTwice ==
    /\ call.fn = "parseM3U" /\ call.done
    /\ Len(call.result) = 2
    /\ call.result[1].name # call.result[2].name
    /\ LET a == call.result[1].id
           b == call.result[2].id
       IN  /\ Len(a) = Len(b)
           /\ SubSeq(a, 1, Len(a) - 1) = SubSeq(b, 1, Len(b) - 1)
           /\ a # b

\* C32: after every successful load the quality, audio and subtitle track
\* sets of the session state are the ones the adapter that has just loaded
\* reported, and no track selection made during an earlier load of the same
\* session is still in the state.
C32_TracksAreOfThisLoad ==
    [][LET s == vp'.playerState
           adapter == vp'.playerTypeRef
       IN (SuccessEvent /\ vp.mounted /\ vp.playerState.isLoading /\ ~s.isLoading)
          => /\ s.currentSubtitle = -1
             /\ s.qualities = (IF adapter = "native" THEN "none" ELSE adapter)
             /\ s.subtitles = (IF adapter = "shaka" THEN "shaka" ELSE "none")
             /\ s.audio = (IF adapter = "native" THEN "default" ELSE adapter)]_vars

FairSpec ==
    /\ Init
    /\ [][Next]_vars
    /\ WF_vars(LoadTimeout)
    /\ WF_vars(Render)
    /\ WF_vars(\E e \in 1..MaxEngines : HlsStartLoad(e))
    /\ WF_vars(\E t \in vp.retryTimers : RetryTimer(t))

====
